---- MODULE Spec2Model ----
(***************************************************************************)
(* KushagraSharma924/Portfolio: the client-side GitHub data aggregation    *)
(* of src/app/page.tsx (latest page variant, lines 1557-2874): the         *)
(* projects cycle fetchGitHubProjects and the commits cycle                *)
(* fetchGitHubData, with their localStorage caches.                        *)
(*                                                                         *)
(* A cycle is an async function: one action per piece of code that runs    *)
(* between two awaits.  The environment (network, localStorage failures,   *)
(* the clock) is chosen with \E from small sets.                           *)
(***************************************************************************)
EXTENDS Integers, Sequences, FiniteSets, TLC

----------------------------------------------------------------------------
(* Bounds of the model                                                     *)

\* the clock stops after this many ticks
MaxTicks == 3
\* mounts of the page in one behaviour of the two-call scenario
MaxCycles == 2

----------------------------------------------------------------------------
(* Strings.  A string is a sequence of one-character strings.              *)

UpperAlpha ==
  << "A","B","C","D","E","F","G","H","I","J","K","L","M",
     "N","O","P","Q","R","S","T","U","V","W","X","Y","Z" >>

LowerAlpha ==
  << "a","b","c","d","e","f","g","h","i","j","k","l","m",
     "n","o","p","q","r","s","t","u","v","w","x","y","z" >>

Lower(c) ==
  IF \E k \in 1..26 : UpperAlpha[k] = c
  THEN LowerAlpha[CHOOSE k \in 1..26 : UpperAlpha[k] = c]
  ELSE c

\* String.prototype.toLowerCase
toLowerCase(s) == [k \in 1..Len(s) |-> Lower(s[k])]

\* String.prototype.includes
includes(s, sub) ==
  \E k \in 0..(Len(s) - Len(sub)) : SubSeq(s, k + 1, k + Len(sub)) = sub

Digits == << "0","1","2","3","4","5","6","7","8","9" >>

RECURSIVE toString(_)
\* Number.prototype.toString of a non-negative integer (Date.now().toString())
toString(n) ==
  IF n < 10 THEN << Digits[n + 1] >>
  ELSE toString(n \div 10) \o << Digits[(n % 10) + 1] >>

DigitValue(c) == (CHOOSE k \in 1..10 : Digits[k] = c) - 1

RECURSIVE parseIntAcc(_, _)
parseIntAcc(s, acc) ==
  IF s = << >> THEN acc
  ELSE parseIntAcc(Tail(s), acc * 10 + DigitValue(Head(s)))

\* parseInt of a string of decimal digits
parseInt(s) == parseIntAcc(s, 0)

\* the string literals of the filter
S_awesome_dash == << "a","w","e","s","o","m","e","-" >>
S_curated      == << "c","u","r","a","t","e","d" >>
S_list_dash    == << "l","i","s","t","-" >>
S_collection_of == << "c","o","l","l","e","c","t","i","o","n"," ","o","f" >>
S_awesome_list == << "a","w","e","s","o","m","e"," ","l","i","s","t" >>
S_list_of      == << "l","i","s","t"," ","o","f" >>
S_resources    == << "r","e","s","o","u","r","c","e","s" >>

----------------------------------------------------------------------------
(* The environment: the account's repositories and the API's answers       *)

\* Repositories the listing endpoints can return.  description and language
\* are "" where the API gives null (both are falsy in every use the code makes
\* of them).  pushed_at is an epoch; name and description are strings.
NamedRepos ==
  << [name |-> << "a","w","e","s","o","m","e","-","g","o" >>, description |-> << >>,
      private |-> FALSE, fork |-> FALSE, size |-> 10, language |-> "Go", pushed_at |-> 5],
     [name |-> << "a","w","e","s","o","m","e","-","g","o" >>, description |-> << >>,
      private |-> TRUE, fork |-> TRUE, size |-> 0, language |-> "", pushed_at |-> 7],
     [name |-> << "p","o","r","t","f","o","l","i","o" >>, description |-> << >>,
      private |-> FALSE, fork |-> FALSE, size |-> 20, language |-> "TypeScript", pushed_at |-> 9],
     [name |-> << "D","e","v","-","R","e","s","o","u","r","c","e","s" >>, description |-> << >>,
      private |-> FALSE, fork |-> FALSE, size |-> 3, language |-> "", pushed_at |-> 9],
     [name |-> << "n","o","t","e","s" >>,
      description |-> << "A","w","e","s","o","m","e","-","t","o","o","l","s" >>,
      private |-> FALSE, fork |-> TRUE, size |-> 1, language |-> "Go", pushed_at |-> 4],
     [name |-> << "t","o","d","o" >>,
      description |-> << "A"," ","L","i","s","t"," ","O","f"," ","t","a","s","k","s" >>,
      private |-> FALSE, fork |-> FALSE, size |-> 2, language |-> "Go", pushed_at |-> 3],
     [name |-> << "f","o","r","k","0" >>, description |-> << >>,
      private |-> FALSE, fork |-> TRUE, size |-> 0, language |-> "", pushed_at |-> 8],
     [name |-> << "w","i","p" >>, description |-> << >>,
      private |-> TRUE, fork |-> FALSE, size |-> 0, language |-> "", pushed_at |-> 9],
     [name |-> << "e","m","p","t","y" >>, description |-> << >>,
      private |-> FALSE, fork |-> FALSE, size |-> 0, language |-> "", pushed_at |-> 2] >>

\* the integers a..b as a list
SeqOfRange(a, b) == [k \in 1..(b - a + 1) |-> a + k - 1]

\* Further repositories of the account, for listings longer than the loop's
\* 30 positions and than the caps of 15 and 10: thirty bookmarks
\* "awesome-<k>", sixteen private repositories "app-<k>" pushed in pairs at the
\* same time, eleven public repositories "lib-<k>" and five public
\* repositories "tool-<k>".
Bookmarks == SeqOfRange(Len(NamedRepos) + 1, Len(NamedRepos) + 30)

Apps == SeqOfRange(Len(NamedRepos) + 31, Len(NamedRepos) + 46)

Libs == SeqOfRange(Len(NamedRepos) + 47, Len(NamedRepos) + 57)

Tools == SeqOfRange(Len(NamedRepos) + 58, Len(NamedRepos) + 62)

GeneratedRepo(k) ==
  IF k <= Bookmarks[Len(Bookmarks)]
  THEN [name |-> S_awesome_dash \o toString(k), description |-> << >>,
        private |-> FALSE, fork |-> FALSE, size |-> 1, language |-> "", pushed_at |-> 1]
  ELSE IF k <= Apps[Len(Apps)]
  THEN [name |-> << "a","p","p","-" >> \o toString(k), description |-> << >>,
        private |-> TRUE, fork |-> FALSE, size |-> k, language |-> "Go",
        pushed_at |-> (k - Apps[1] + 2) \div 2]
  ELSE IF k <= Libs[Len(Libs)]
  THEN [name |-> << "l","i","b","-" >> \o toString(k), description |-> << >>,
        private |-> FALSE, fork |-> FALSE, size |-> 1, language |-> "",
        pushed_at |-> k - Libs[1] + 1]
  ELSE [name |-> << "t","o","o","l","-" >> \o toString(k), description |-> << >>,
        private |-> FALSE, fork |-> FALSE, size |-> 2, language |-> "Rust",
        pushed_at |-> k - Tools[1] + 1]

\* whether the repository with this index is one of the further repositories
Generated(k) == k > Len(NamedRepos)

RepoCatalogue ==
  NamedRepos \o [k \in 1..(Len(Bookmarks) + Len(Apps) + Len(Libs) + Len(Tools)) |->
                   GeneratedRepo(Len(NamedRepos) + k)]

\* thirty bookmarks, then fifteen private repositories
LongListing == Bookmarks \o SubSeq(Apps, 1, 15)

\* thirty-three repositories the loop does not skip
FullListing == << 3 >> \o Apps \o Libs \o Tools

\* a repository of size 0, a bookmark, then the eleven public repositories
PublicListing == << 7, 1 >> \o Libs

\* the listing of the commits cycle: forks, an empty repository, and seven
\* repositories that are neither
DataListing == << 5, 3, 7, 4, 9, 6, 1 >> \o SubSeq(Libs, 1, 3)

\* The author dates of the latest commits of a repository, newest first, as
\* GET .../commits returns them.
CommitDates(k) ==
  CASE k = 3 -> << 90, 50, 10 >>
    [] k = 4 -> << 80, 70, 60 >>
    [] k = 6 -> << 95, 20, 5 >>
    [] k = 1 -> << 65 >>
    [] k = Libs[1] -> << 85, 15 >>
    [] k = 5 -> << 99, 98, 97 >>
    [] OTHER -> << 100, 96 >>

\* a commit object of the API: its sha (a string) and commit.author.date
ApiCommit(k, n) ==
  [sha |-> toString(k * 10 + n) \o << "a","b","c","d","e","f" >>, date |-> CommitDates(k)[n]]

\* the body of GET .../commits?per_page=3 for the repository k
CommitsOf(k) == [n \in 1..Len(CommitDates(k)) |-> ApiCommit(k, n)]

\* Bodies of a repository listing: sequences of indices into RepoCatalogue
\* (names are unique within one listing, as within one account).
\* The scenario "single" is one cycle against every answer below; the
\* scenario "twice" is two cycles in a row against fewer answers; the
\* scenario "many" is one cycle against fewer answers and long listings.
Listings(sc) ==
  CASE sc = "single" -> { << >>, << 1, 3 >>, << 2, 8 >>, << 5, 6 >>, << 7, 4 >> }
    [] sc = "many" -> { << 5, 4, 3 >>, Apps, LongListing, PublicListing, FullListing }
    [] OTHER -> { << 1, 3 >> }

\* what the unauthenticated endpoint can list: no private repository
PublicListings(sc) ==
  { L \in Listings(sc) : \A k \in 1..Len(L) : ~RepoCatalogue[L[k]].private }

Ok(status) == status >= 200 /\ status <= 299

\* An answer to fetch(): the request rejects, or a response with a status and
\* a body; body "invalid" makes response.json() throw, "object" is JSON that
\* is not an array, "array" is the JSON array in list.
Rejected == [rejects |-> TRUE, status |-> 0, body |-> "none", list |-> << >>]

Response(status, body, list) ==
  [rejects |-> FALSE, status |-> status, body |-> body, list |-> list]

ErrorAnswers(sc) ==
  { Rejected, Response(403, "object", << >>) } \cup
  (IF sc # "single" THEN { }
   ELSE { Response(401, "object", << >>), Response(500, "invalid", << >>) })

\* GET /user/repos: needs authentication, so without a token it lists nothing
ListingAnswers(sc, tok) ==
  ErrorAnswers(sc) \cup
  (IF tok
   THEN { Response(200, "array", L) : L \in Listings(sc) } \cup { Response(200, "object", << >>) }
   ELSE { })

\* GET /users/{username}/repos
PublicListingAnswers(sc) ==
  ErrorAnswers(sc) \cup { Response(200, "array", L) : L \in PublicListings(sc) }

\* GET .../contributors?per_page=100 : list holds the contributions fields
ContributorsAnswers(sc) ==
  { Response(200, "array", << >>), Response(200, "array", << 2, 1 >>) } \cup
  (IF sc # "single" THEN { }
   ELSE { Rejected, Response(403, "object", << >>), Response(200, "invalid", << >>) })

\* The Link header of a response: a sequence of links [page, rel], page being
\* the digits of the page parameter; << >> when the header is absent.
NoLink == << >>

LinkWithLast ==
  << [page |-> << "2" >>, rel |-> "next"], [page |-> << "3", "7" >>, rel |-> "last"] >>

LinkWithoutLast == << [page |-> << "1" >>, rel |-> "prev"], [page |-> << "1" >>, rel |-> "first"] >>

\* GET .../commits?per_page=1
CommitsPageAnswers(sc) ==
  { [rejects |-> FALSE, status |-> 200, link |-> NoLink],
    [rejects |-> FALSE, status |-> 200, link |-> LinkWithLast] } \cup
  (IF sc # "single" THEN { }
   ELSE { [rejects |-> TRUE, status |-> 0, link |-> NoLink],
          [rejects |-> FALSE, status |-> 403, link |-> NoLink],
          [rejects |-> FALSE, status |-> 200, link |-> LinkWithoutLast] })

\* GET .../commits : list holds the commits
AllCommitsAnswers(sc) ==
  { Rejected, Response(200, "array", << 1, 2 >>) } \cup
  (IF sc # "single" THEN { }
   ELSE { Response(403, "object", << >>), Response(200, "object", << >>),
          Response(200, "array", << >>) })

\* GET .../languages : a JSON object; list holds its keys in the order returned
LanguagesAnswers(sc) ==
  { Rejected,
    Response(200, "object", << "TypeScript", "CSS", "HTML", "JavaScript", "Shell" >>) } \cup
  (IF sc # "single" THEN { }
   ELSE { Response(403, "object", << >>), Response(200, "object", << >>) })

\* The answers about one repository: a further repository has one contributor
\* and one language, a named one any answer of the scenario.
ContributorsAnswersFor(sc, r) ==
  IF Generated(r) THEN { Response(200, "array", << (r % 3) + 1 >>) } ELSE ContributorsAnswers(sc)

LanguagesAnswersFor(sc, r) ==
  IF Generated(r) THEN { Response(200, "object", << "Go" >>) } ELSE LanguagesAnswers(sc)

\* The answers to the requests of the commits cycle: to the listing request
\* (about = 0) or to the commits request of the repository `about`.
DataAnswers(about) ==
  { Rejected, Response(403, "object", << >>), Response(200, "object", << >>),
    Response(200, "invalid", << >>) } \cup
  (IF about = 0
   THEN { Response(500, "invalid", << >>), Response(200, "array", << >>),
          Response(200, "array", << 5, 7 >>), Response(200, "array", DataListing) }
   ELSE { Response(200, "array", CommitsOf(about)) })

\* The answers of a scenario to the requests of the commits cycle: the
\* scenario "live", in which both cycles run side by side, has fewer.
DataAnswersFor(sc, about) ==
  IF sc # "live" THEN DataAnswers(about)
  ELSE { Rejected } \cup
       (IF about = 0
        THEN { Response(200, "object", << >>), Response(200, "array", << 3, 1 >>) }
        ELSE { Response(200, "array", CommitsOf(about)) })

\* localStorage.setItem can throw (quota, storage disabled): the first call of
\* a pair throws, or the second, or none
WriteFailures == { "ok", "first", "second" }

----------------------------------------------------------------------------
(* Pure functions of the cycles                                            *)

\* cacheExpiry of fetchGitHubProjects, in ms
PROJECTS_EXPIRY == 30 * 60 * 1000

\* the clock advances in steps of fifteen minutes
TickMs == 15 * 60 * 1000

\* a comparison that takes every entry for expired
isExpired_always(nowMs, cacheTimestamp, cacheExpiry) ==
  nowMs - parseInt(cacheTimestamp) > 0 - cacheExpiry

\* const isExpired = Date.now() - parseInt(cacheTimestamp) > cacheExpiry
isExpired(nowMs, cacheTimestamp, cacheExpiry) ==
  nowMs - parseInt(cacheTimestamp) > cacheExpiry

\* A localStorage item is << >> when getItem returns null, else << string >>.
\* `cachedData && cacheTimestamp`: both present and neither the empty string.
Truthy(item) == item # << >> /\ item[1] # << >>

\* A Date is [time |-> epoch] and its ISO string is [iso |-> epoch].
\* JSON.stringify writes a Date as its ISO string (Date.prototype.toJSON) and a
\* string as itself; JSON.parse gives the string back, not a Date.
toJSON(value) == IF "time" \in DOMAIN value THEN [iso |-> value.time] ELSE value

\* JSON.stringify of a list of project entries (a string, never empty)
JSONstringify(list) ==
  << "JSON", [k \in 1..Len(list) |-> [list[k] EXCEPT !.pushedAt = toJSON(@)]] >>

\* JSON.parse of a string written by JSONstringify
JSONparse(str) == str[2]

\* the filter without its test for 'awesome-'
isLikelyStarred_noAwesome(repo) ==
  LET repoNameLower == toLowerCase(repo.name)
      repoDescLower == toLowerCase(repo.description)
  IN  \/ includes(repoNameLower, S_curated)
      \/ includes(repoNameLower, S_list_dash)
      \/ includes(repoDescLower, S_curated)
      \/ includes(repoDescLower, S_collection_of)
      \/ includes(repoDescLower, S_awesome_list)
      \/ includes(repoDescLower, S_list_of)
      \/ (repo.size = 0 /\ ~repo.private /\ repo.fork)

\* the filter without its tests of the description
isLikelyStarred_nameOnly(repo) ==
  LET repoNameLower == toLowerCase(repo.name)
  IN  \/ includes(repoNameLower, S_awesome_dash)
      \/ includes(repoNameLower, S_curated)
      \/ includes(repoNameLower, S_list_dash)
      \/ (repo.size = 0 /\ ~repo.private /\ repo.fork)

\* isLikelyStarred of the main path
isLikelyStarred(repo) ==
  LET repoNameLower == toLowerCase(repo.name)
      repoDescLower == toLowerCase(repo.description)
  IN  \/ includes(repoNameLower, S_awesome_dash)
      \/ includes(repoNameLower, S_curated)
      \/ includes(repoNameLower, S_list_dash)
      \/ includes(repoDescLower, S_curated)
      \/ includes(repoDescLower, S_collection_of)
      \/ includes(repoDescLower, S_awesome_list)
      \/ includes(repoDescLower, S_list_of)
      \/ (repo.size = 0 /\ ~repo.private /\ repo.fork)

\* isLikelyStarred of the fallback path's filter
isLikelyStarredFallback(repo) ==
  LET repoNameLower == toLowerCase(repo.name)
      repoDescLower == toLowerCase(repo.description)
  IN  \/ includes(repoNameLower, S_awesome_dash)
      \/ includes(repoNameLower, S_curated)
      \/ includes(repoNameLower, S_list_dash)
      \/ includes(repoDescLower, S_curated)
      \/ includes(repoDescLower, S_collection_of)

\* repo.private ? 'private' : (repo.fork ? 'fork' : 'public')
StatusOf(repo) == IF repo.private THEN "private" ELSE IF repo.fork THEN "fork" ELSE "public"

\* repo.language || 'Code'
LanguageOr(repo) == IF repo.language # "" THEN repo.language ELSE "Code"

\* The object pushed to projectsData.  Of its fields the model keeps name,
\* tech, status, commitCount, language, size and pushedAt; description, stars,
\* forks, updated, url and createdAt are copies of repository fields like size.
ProjectEntry(repo, techStack, count, status) ==
  [name |-> repo.name, tech |-> techStack, status |-> status, commitCount |-> count,
   language |-> LanguageOr(repo), size |-> repo.size, pushedAt |-> [time |-> repo.pushed_at]]

RECURSIVE SumContributions(_)
\* contributors.reduce((total, c) => total + (c.contributions || 0), 0)
SumContributions(list) ==
  IF list = << >> THEN 0 ELSE Head(list) + SumContributions(Tail(list))

\* linkHeader.match(/page=(\d+)>; rel="last"/): << >> for no match, else
\* << the page number of the first rel="last" link >>
lastPageMatch(linkHeader) ==
  LET hits == { k \in 1..Len(linkHeader) : linkHeader[k].rel = "last" }
  IN  IF hits = { } THEN << >>
      ELSE << linkHeader[CHOOSE k \in hits : \A m \in hits : k <= m].page >>

\* Array.prototype.slice(0, n)
slice(seq, n) == SubSeq(seq, 1, IF Len(seq) < n THEN Len(seq) ELSE n)

\* a comparator that looks at the dates only
compareProjects_dateOnly(a, b) == b.pushedAt.time - a.pushedAt.time

\* the comparator of projectsData.sort: negative when a goes first
compareProjects(a, b) ==
  IF b.pushedAt.time # a.pushedAt.time
  THEN b.pushedAt.time - a.pushedAt.time
  ELSE b.commitCount - a.commitCount

\* insert x behind every element that does not go after it (the sort is stable)
InsertSorted(sorted, x) ==
  LET keep == { k \in 0..Len(sorted) : \A m \in 1..k : compareProjects(sorted[m], x) <= 0 }
      at == CHOOSE k \in keep : \A m \in keep : m <= k
  IN  SubSeq(sorted, 1, at) \o << x >> \o SubSeq(sorted, at + 1, Len(sorted))

RECURSIVE SortFrom(_, _)
SortFrom(todo, sorted) ==
  IF todo = << >> THEN sorted ELSE SortFrom(Tail(todo), InsertSorted(sorted, Head(todo)))

\* Array.prototype.sort with compareProjects
sortProjects(list) == SortFrom(list, << >>)

\* const finalProjects = projectsData.slice(0, 15) after the sort
finalProjectsOf(projectsData) == slice(sortProjects(projectsData), 15)

\* a tech stack that keeps every key of the language breakdown
techStackOf_allKeys(repo, keys) ==
  IF keys # << >> THEN keys
  ELSE IF repo.language # "" THEN << repo.language >>
  ELSE << "Code" >>

\* techStack after the languages request and its two fallbacks
techStackOf(repo, keys) ==
  IF keys # << >> THEN slice(keys, 4)
  ELSE IF repo.language # "" THEN << repo.language >>
  ELSE << "Code" >>

\* a filter that keeps every repository
filterFallback_all(list) == list

\* fallbackRepos.filter(...).slice(0, 10).map(...)
RECURSIVE filterFallback(_)
filterFallback(list) ==
  IF list = << >> THEN << >>
  ELSE LET repo == RepoCatalogue[Head(list)]
       IN  (IF ~isLikelyStarredFallback(repo) /\ repo.size > 0 THEN << Head(list) >> ELSE << >>)
           \o filterFallback(Tail(list))

fallbackProjectsOf(fallbackRepos) ==
  LET kept == slice(filterFallback(fallbackRepos), 10)
  IN  [k \in 1..Len(kept) |->
         LET repo == RepoCatalogue[kept[k]]
         IN  ProjectEntry(repo, << LanguageOr(repo) >>, 1,
                          IF repo.fork THEN "fork" ELSE "public")]

\* a cache write whose timestamp is not the time of the write
setItems_staleTimestamp(store, list, nowMs, failure) ==
  IF failure = "first" THEN store
  ELSE IF failure = "second" THEN [store EXCEPT !.data = << JSONstringify(list) >>]
  ELSE [data |-> << JSONstringify(list) >>, ts |-> << toString(0) >>]

\* a cache write that forgets the timestamp item
setItems_noTimestamp(store, list, nowMs, failure) ==
  IF failure = "first" THEN store ELSE [store EXCEPT !.data = << JSONstringify(list) >>]

\* localStorage.setItem(cacheKey, JSON.stringify(list)) followed by
\* localStorage.setItem(cacheKey + '_timestamp', Date.now().toString())
setItems(store, list, nowMs, failure) ==
  IF failure = "first" THEN store
  ELSE IF failure = "second" THEN [store EXCEPT !.data = << JSONstringify(list) >>]
  ELSE [data |-> << JSONstringify(list) >>, ts |-> << toString(nowMs) >>]

\* CACHE_CONFIG.COMMITS_EXPIRY, in ms
COMMITS_EXPIRY == 15 * 60 * 1000

\* the default of the parameter retries of fetchWithRetry
RETRIES == 2

\* an attempt that returns whatever response it gets, without the status check
fetchOutcome_noStatusCheck(a, idx) ==
  IF a.rejects \/ a.body = "invalid"
  THEN IF idx = RETRIES THEN [kind |-> "throw", ms |-> 0]
       ELSE [kind |-> "wait", ms |-> 500 * (idx + 1)]
  ELSE [kind |-> "return", ms |-> 0]

\* an attempt whose waits do not grow with the loop index
fetchOutcome_flatBackoff(a, idx) ==
  IF ~a.rejects /\ a.status = 403 /\ idx < RETRIES
  THEN [kind |-> "wait", ms |-> 1000]
  ELSE IF a.rejects \/ ~Ok(a.status) \/ a.body = "invalid"
  THEN IF idx = RETRIES THEN [kind |-> "throw", ms |-> 0]
       ELSE [kind |-> "wait", ms |-> 500]
  ELSE [kind |-> "return", ms |-> 0]

\* What one attempt of fetchWithRetry comes to, i being the loop index: the
\* parsed body is returned, or the call waits and tries again, or the error is
\* thrown to the caller.
fetchOutcome(a, idx) ==
  IF ~a.rejects /\ a.status = 403 /\ idx < RETRIES
  THEN [kind |-> "wait", ms |-> 1000 * (idx + 1)]
  ELSE IF a.rejects \/ ~Ok(a.status) \/ a.body = "invalid"
  THEN IF idx = RETRIES THEN [kind |-> "throw", ms |-> 0]
       ELSE [kind |-> "wait", ms |-> 500 * (idx + 1)]
  ELSE [kind |-> "return", ms |-> 0]

\* the log of a fetchWithRetry call after the answer a to its attempt idx
answered(log, a, idx) ==
  [answers |-> IF idx = 0 THEN << a >> ELSE Append(log.answers, a),
   result |-> CASE fetchOutcome(a, idx).kind = "wait" -> "pending"
                [] fetchOutcome(a, idx).kind = "throw" -> "threw"
                [] OTHER -> "returned"]

\* a selection that keeps forks and empty repositories
RECURSIVE filterRecent_all(_)
filterRecent_all(list) ==
  IF list = << >> THEN << >> ELSE << Head(list) >> \o filterRecent_all(Tail(list))

\* repos.filter(repo => !repo.fork && repo.size > 0)
RECURSIVE filterRecent(_)
filterRecent(list) ==
  IF list = << >> THEN << >>
  ELSE (IF ~RepoCatalogue[Head(list)].fork /\ RepoCatalogue[Head(list)].size > 0
        THEN << Head(list) >> ELSE << >>)
       \o filterRecent(Tail(list))

\* const recentRepos = repos.filter(...).slice(0, 5)
recentReposOf(list) == slice(filterRecent(list), 5)

\* The objects pushed for the commits of one answer.  Of their fields the
\* model keeps sha, date and repo; message and author are copies of fields of
\* the commit.
commitEntries(k, commits) ==
  [n \in 1..Len(commits) |->
     [sha |-> SubSeq(commits[n].sha, 1, 7), date |-> [time |-> commits[n].date],
      repo |-> RepoCatalogue[k].name]]

\* the comparator of commitsData.sort: negative when a goes first
compareCommits(a, b) == b.date.time - a.date.time

\* Array.prototype.sort with compareCommits: the sort is stable, so an entry
\* goes before another when the comparator puts it first, or puts neither
\* first and it stood first
sortCommits(list) ==
  LET before(m, n) ==
        \/ compareCommits(list[m], list[n]) < 0
        \/ compareCommits(list[m], list[n]) = 0 /\ m < n
      rank(n) == Cardinality({ m \in 1..Len(list) : before(m, n) }) + 1
  IN  [k \in 1..Len(list) |-> list[CHOOSE n \in 1..Len(list) : rank(n) = k]]

\* const finalCommits = commitsData.slice(0, 8) after the sort
finalCommitsOf(list) == slice(sortCommits(list), 8)

\* JSON.stringify of a list of commit entries
JSONstringifyCommits(list) ==
  << "JSON", [k \in 1..Len(list) |-> [list[k] EXCEPT !.date = toJSON(@)]] >>

\* the two setItem calls of fetchGitHubData
setCommitItems(store, list, nowMs, failure) ==
  IF failure = "first" THEN store
  ELSE IF failure = "second" THEN [store EXCEPT !.data = << JSONstringifyCommits(list) >>]
  ELSE [data |-> << JSONstringifyCommits(list) >>, ts |-> << toString(nowMs) >>]

\* one day, in ms
DayMs == 86400000

\* the hard-coded commits of the catch block, dated from new Date() backwards
fallbackCommits(nowMs) ==
  LET shas == << << "2","f","8","a","9","c","3" >>, << "1","a","7","b","2","d","4" >>,
                 << "9","e","5","f","1","c","8" >>, << "4","d","3","a","7","b","2" >>,
                 << "8","c","1","f","5","e","9" >> >>
  IN  [n \in 1..5 |->
         [sha |-> shas[n], date |-> [time |-> nowMs - (n - 1) * DayMs],
          repo |-> << "p","o","r","t","f","o","l","i","o" >>]]

----------------------------------------------------------------------------
(* State                                                                   *)

VARIABLES
  scenario,        \* which environment the behaviour runs against
  now,             \* Date.now(), in ms
  token,           \* process.env.NEXT_PUBLIC_GITHUB_TOKEN is set
  storage,         \* localStorage: github_projects_data and its _timestamp
  pc,              \* where fetchGitHubProjects is suspended
  repos,           \* the parsed listing (indices into RepoCatalogue)
  i,               \* loop index (1-based position in repos)
  projectsData,    \* the entries collected so far
  commitCount,     \* commitCount of the repository being enriched
  realProjects,    \* React state set by setRealProjects
  projectsLoading, \* React state set by setProjectsLoading
  settled,         \* the promise of the call: pending, fulfilled or rejected
  netLog,          \* requests issued by the current cycle, in order
  written,         \* localStorage.setItem calls completed by the current cycle
  entry,           \* how the cycle started: hit, miss or readthrew
  listing,         \* what the listing request came to
  fallback,        \* what the fallback request came to
  contrib,         \* what the contributors request of repository i came to
                   \* ("none" outside the loop, as for the next three)
  pageLink,        \* what the commits?per_page=1 request of repository i came to
  allCommits,      \* what the request for the whole commit list of repository i came to
  langs,           \* what the languages request of repository i came to, and its keys
  cached,          \* whether the cycle served its list from, or saved it whole
                   \* to, the cache, and the timestamp of that entry
  startedAt,       \* Date.now() when the cycle read the cache
  cycles,          \* cycles started so far
  fallbackRepos,   \* the parsed fallback listing
  self,            \* which of two overlapping cycles is running: 1 or 2
  other,           \* the local state of the other, suspended cycle
  writer,          \* the cycles that wrote the payload item and the timestamp
                   \* item last (0: an earlier session, or nobody)
  dpc,             \* where fetchGitHubData is suspended
  commitsStore,    \* localStorage: github_commits_data and its _timestamp
  gitCommits,      \* React state set by setGitCommits
  loading,         \* React state set by setLoading
  dataRepos,       \* the parsed listing of fetchGitHubData
  recentRepos,     \* the repositories whose commits are requested
  target,          \* position in recentRepos of the request in flight (0: the listing)
  attempt,         \* the loop index i of the fetchWithRetry call in flight
  tries,           \* requests issued by that call
  waits,           \* the delays, in ms, that call waited between attempts
  fetchLog,        \* the answers the latest fetchWithRetry call to get one has
                   \* received, and how the call ended (pending until then)
  commitsData,     \* the entries collected so far
  dEntry,          \* how fetchGitHubData started: hit, miss or readthrew
  usedFallback,    \* the cycle set the hard-coded fallback commits
  prev,            \* the cycle before this one: its realProjects, cached and
                   \* startedAt, and the storage (and its timestamp item) as
                   \* this cycle found it
  rpc,             \* where the POST handler of the contact route is suspended
  body,            \* the body of the request it handles
  resendApiKey,    \* process.env.RESEND_API_KEY is set
  returned,        \* the responses the handler returned, in order
  upstreamRequests,\* requests the handler sent to api.resend.com
  upstreamAnswer,  \* what the upstream request came to (status 0 before that)
  logged,          \* the handler logged the submission as received
  bpc,             \* where processInBatches is suspended
  items,           \* its argument items
  batchSize,       \* its argument batchSize
  bi,              \* its loop index i (the offset of the batch)
  outcomes,        \* what the processor invocation of each item has come to
  results,         \* its local results
  cpc,             \* where GitHubAPIClient.getCommitCount is suspended
  pageAnswer,      \* what its commits?per_page=1 request came to, and the Link header
  countResult,     \* the count it returned, and by which return statement
  fpc,             \* where MessageForm.handleSubmit is suspended
  formData,        \* MessageForm's state formData
  isSubmitting,    \* MessageForm's state isSubmitting
  submitStatus,    \* MessageForm's state submitStatus
  formRequests,    \* how many requests handleSubmit has sent to /api/contact
  formAnswer,      \* what the latest of them came to
  submits          \* how many times handleSubmit has been called

dataVars ==
  << dpc, commitsStore, gitCommits, loading, dataRepos, recentRepos, target, attempt, tries,
     waits, fetchLog, commitsData, dEntry, usedFallback >>

\* the state of the contact route
routeVars == << rpc, body, resendApiKey, returned, upstreamRequests, upstreamAnswer, logged >>

\* the state of a processInBatches call
batchVars == << bpc, items, batchSize, bi, outcomes, results >>

\* the state of a getCommitCount call, apart from the fetchWithRetry call it makes
countVars == << cpc, pageAnswer, countResult >>

\* the state of MessageForm and of its handleSubmit call
formVars == << fpc, formData, isSubmitting, submitStatus, formRequests, formAnswer, submits >>

\* the state of the site's other operations, which the GitHub cycles leave alone
siteVars == << routeVars, batchVars, countVars, formVars >>

vars ==
  << dataVars, siteVars, scenario, now, token, storage, pc, repos, i, projectsData, commitCount, realProjects,
     projectsLoading, settled, netLog, written, entry, listing, fallback, contrib,
     pageLink, allCommits, langs, cached, startedAt, cycles, fallbackRepos, self, other,
     writer, prev >>

\* a request of the log: the endpoint, the repository it is about (0 for a
\* listing) and whether it carries the Authorization header
Request(endpoint, repoIndex, auth) ==
  [endpoint |-> endpoint, repo |-> repoIndex, auth |-> auth]

NoItem == << >>

EmptyStorage == [data |-> NoItem, ts |-> NoItem]

\* no languages request was made yet
NoLanguages == [outcome |-> "none", keys |-> << >>]

NotCached == [is |-> FALSE, at |-> 0]

CachedAt(storedAt) == [is |-> TRUE, at |-> storedAt]

\* an entry an earlier session wrote at time 0
StoredEarlier == setItems(EmptyStorage, fallbackProjectsOf(<< 1, 3 >>), 0, "ok")

\* the local state of a cycle that has not started
NotStarted ==
  [pc |-> "unmounted", repos |-> << >>, i |-> 0, projectsData |-> << >>, commitCount |-> 0,
   realProjects |-> << >>, projectsLoading |-> TRUE, settled |-> "pending",
   netLog |-> << >>, written |-> 0, entry |-> "none",
   listing |-> [outcome |-> "none", status |-> 0],
   fallback |-> [outcome |-> "none", status |-> 0], contrib |-> "none",
   pageLink |-> [outcome |-> "none", link |-> NoLink], allCommits |-> "none",
   langs |-> NoLanguages, cached |-> NotCached, startedAt |-> 0, fallbackRepos |-> << >>,
   prev |-> [result |-> << >>, cached |-> NotCached, startedAt |-> 0, ts |-> NoItem,
             storage |-> EmptyStorage]]

\* nobody of this session wrote the cache
NoWriter == [data |-> 0, ts |-> 0]

\* who wrote the two items last, after the cycle `id` called setItem twice
writerAfter(w, id, failure) ==
  IF failure = "first" THEN w
  ELSE IF failure = "second" THEN [w EXCEPT !.data = id]
  ELSE [data |-> id, ts |-> id]

\* the commits cycle has not started
InitData ==
  /\ dpc = "unmounted"
  /\ gitCommits = << >>
  /\ loading = TRUE
  /\ dataRepos = << >>
  /\ recentRepos = << >>
  /\ target = 0
  /\ attempt = 0
  /\ tries = << >>
  /\ waits = << >>
  /\ fetchLog = [answers |-> << >>, result |-> "none"]
  /\ commitsData = << >>
  /\ dEntry = "none"
  /\ usedFallback = FALSE

\* no request has reached the contact route
InitRoute ==
  /\ rpc = "idle"
  /\ body = [json |-> "none"]
  /\ returned = << >>
  /\ upstreamRequests = 0
  /\ upstreamAnswer = [rejects |-> FALSE, status |-> 0, json |-> FALSE]
  /\ logged = FALSE

\* processInBatches has not been called
InitBatches ==
  /\ bpc = "idle"
  /\ items = << >>
  /\ batchSize = 0
  /\ bi = 0
  /\ outcomes = << >>
  /\ results = << >>

\* getCommitCount has not been called
InitCount ==
  /\ cpc = "idle"
  /\ pageAnswer = [outcome |-> "none", link |-> NoLink]
  /\ countResult = [via |-> "none", value |-> 0]

\* the response header content-type: absent (headers.get returns null) or a text
NoContentType == [present |-> FALSE, text |-> << >>]

\* no request of the form has been answered
NoFormAnswer == [rejects |-> FALSE, contentType |-> NoContentType, parses |-> FALSE, ok |-> FALSE]

\* MessageForm as it is first rendered
InitForm ==
  /\ fpc = "idle"
  /\ formData = [name |-> "", email |-> "", message |-> ""]
  /\ isSubmitting = FALSE
  /\ submitStatus = "idle"
  /\ formRequests = 0
  /\ formAnswer = NoFormAnswer
  /\ submits = 0

\* the site's other operations have not started
InitSite ==
  /\ InitRoute
  /\ InitBatches
  /\ InitCount
  /\ InitForm
  /\ resendApiKey = FALSE

InitCycle ==
  /\ now = 0
  /\ self = 1
  /\ other = NotStarted
  /\ writer = NoWriter
  /\ token \in BOOLEAN
  /\ pc = "unmounted"
  /\ repos = << >>
  /\ i = 0
  /\ projectsData = << >>
  /\ commitCount = 0
  /\ realProjects = << >>
  /\ projectsLoading = TRUE
  /\ settled = "pending"
  /\ netLog = << >>
  /\ written = 0
  /\ entry = "none"
  /\ listing = [outcome |-> "none", status |-> 0]
  /\ fallback = [outcome |-> "none", status |-> 0]
  /\ contrib = "none"
  /\ pageLink = [outcome |-> "none", link |-> NoLink]
  /\ allCommits = "none"
  /\ langs = NoLanguages
  /\ fallbackRepos = << >>
  /\ cached = NotCached
  /\ startedAt = 0
  /\ cycles = 0
  /\ prev = [result |-> << >>, cached |-> NotCached, startedAt |-> 0, ts |-> NoItem,
             storage |-> EmptyStorage]

Init ==
  /\ commitsStore = EmptyStorage
  /\ InitData
  /\ InitSite
  /\ scenario = "single"
  /\ storage \in { EmptyStorage, StoredEarlier }
  /\ InitCycle

InitTwice ==
  /\ commitsStore = EmptyStorage
  /\ InitData
  /\ InitSite
  /\ scenario = "twice"
  /\ storage = EmptyStorage
  /\ InitCycle

InitOverlap ==
  /\ commitsStore = EmptyStorage
  /\ InitData
  /\ InitSite
  /\ scenario = "overlap"
  /\ storage \in { EmptyStorage, StoredEarlier }
  /\ InitCycle

InitMany ==
  /\ commitsStore = EmptyStorage
  /\ InitData
  /\ InitSite
  /\ scenario = "many"
  /\ storage \in { EmptyStorage, StoredEarlier }
  /\ InitCycle

----------------------------------------------------------------------------
(* fetchGitHubProjects                                                     *)

\* the cache entry is used: both items present and the entry not expired
CacheFresh(store, nowMs, cacheExpiry) ==
  /\ Truthy(store.data)
  /\ Truthy(store.ts)
  /\ ~isExpired(nowMs, store.ts[1], cacheExpiry)

\* the endpoint of the listing request, whether or not a token is configured
listingEndpoint(tok) == "user/repos"

\* the endpoint of the fallback request; it is sent without headers
fallbackEndpoint == "users/repos"

\* a fallback whose error escapes the call
fallbackErrorSettles_rethrow == "rejected"

\* catch (fallbackError) { }: the error is swallowed and the call completes
fallbackErrorSettles == "fulfilled"

\* a loop over the whole listing
loopLimit_all(rs) == Len(rs)

\* Math.min(repos.length, 30)
loopLimit(rs) == IF Len(rs) < 30 THEN Len(rs) ELSE 30

\* the next position from `from` on that the loop does not skip with continue
nextIndex(rs, from) ==
  LET cand == { k \in from..loopLimit(rs) : ~isLikelyStarred(RepoCatalogue[rs[k]]) }
  IN  IF cand = { } THEN loopLimit(rs) + 1
      ELSE CHOOSE k \in cand : \A m \in cand : k <= m

\* a new mount of the page: the React state is at its defaults and the effect
\* calls fetchGitHubProjects
StartCycle ==
  /\ \/ pc = "unmounted"
     \/ pc = "done" /\ scenario = "twice" /\ cycles < MaxCycles
  /\ cycles' = cycles + 1
  /\ prev' = [result |-> realProjects, cached |-> cached, startedAt |-> startedAt,
               ts |-> storage.ts, storage |-> storage]
  /\ startedAt' = now
  /\ repos' = << >>
  /\ i' = 0
  /\ projectsData' = << >>
  /\ commitCount' = 0
  /\ written' = 0
  /\ listing' = [outcome |-> "none", status |-> 0]
  /\ fallback' = [outcome |-> "none", status |-> 0]
  /\ contrib' = "none"
  /\ pageLink' = [outcome |-> "none", link |-> NoLink]
  /\ allCommits' = "none"
  /\ langs' = NoLanguages
  /\ fallbackRepos' = << >>
  /\ UNCHANGED << scenario, dataVars, siteVars, self, other, now, token, storage, writer >>

\* the outer catch block up to its await: the fallback request is issued
EnterCatch(log) ==
  /\ pc' = "awaitFallback"
  /\ netLog' = Append(log, Request(fallbackEndpoint, 0, FALSE))

\* the call returns
Return ==
  /\ pc' = "done"
  /\ projectsLoading' = FALSE
  /\ settled' = "fulfilled"

\* localStorage.getItem throws: the outer catch runs
CacheReadThrows ==
  /\ StartCycle
  /\ entry' = "readthrew"
  /\ realProjects' = << >>
  /\ projectsLoading' = TRUE
  /\ settled' = "pending"
  /\ cached' = NotCached
  /\ EnterCatch(<< >>)

\* the cache entry is fresh: it is parsed and returned
CacheHit ==
  /\ StartCycle
  /\ CacheFresh(storage, now, PROJECTS_EXPIRY)
  /\ entry' = "hit"
  /\ realProjects' = JSONparse(storage.data[1])
  /\ cached' = CachedAt(parseInt(storage.ts[1]))
  /\ netLog' = << >>
  /\ Return

\* no usable cache entry: the listing request is issued
CacheMiss ==
  /\ StartCycle
  /\ ~CacheFresh(storage, now, PROJECTS_EXPIRY)
  /\ entry' = "miss"
  /\ realProjects' = << >>
  /\ projectsLoading' = TRUE
  /\ settled' = "pending"
  /\ cached' = NotCached
  /\ netLog' = << Request(listingEndpoint(token), 0, token) >>
  /\ pc' = "awaitRepos"

\* The loop from position `from` on, up to its next await: either the
\* contributors request of the next repository that is not skipped, or the
\* end of the loop: sort (in place), cap, cache write, setRealProjects.
ContinueLoop(from, pd, rs) ==
  LET k == nextIndex(rs, from)
  IN  /\ i' = k
      /\ projectsData' = IF k <= loopLimit(rs) THEN pd ELSE sortProjects(pd)
      /\ IF k <= loopLimit(rs)
         THEN /\ commitCount' = 0
              /\ contrib' = "pending"
              /\ pageLink' = [outcome |-> "pending", link |-> NoLink]
              /\ allCommits' = "pending"
              /\ langs' = [outcome |-> "pending", keys |-> << >>]
              /\ netLog' = Append(netLog, Request("contributors", rs[k], token))
              /\ pc' = "awaitContributors"
              /\ UNCHANGED << storage, writer, realProjects, projectsLoading, settled, written, cached >>
         ELSE /\ UNCHANGED commitCount
              /\ contrib' = "none"
              /\ pageLink' = [outcome |-> "none", link |-> NoLink]
              /\ allCommits' = "none"
              /\ langs' = NoLanguages
              /\ \E failure \in WriteFailures :
                   LET finalProjects == finalProjectsOf(pd)
                   IN  /\ storage' = setItems(storage, finalProjects, now, failure)
                       /\ writer' = writerAfter(writer, self, failure)
                       /\ written' = written + (CASE failure = "ok" -> 2
                                                  [] failure = "second" -> 1
                                                  [] OTHER -> 0)
                       /\ IF failure = "ok"
                          THEN /\ realProjects' = finalProjects
                               /\ cached' = CachedAt(now)
                               /\ netLog' = netLog
                               /\ Return
                          ELSE /\ EnterCatch(netLog)
                               /\ UNCHANGED << realProjects, projectsLoading, settled, cached >>

\* fetch rejects, or reposResponse.json() throws: the outer catch runs
ReposThrows ==
  /\ pc = "awaitRepos"
  /\ \E a \in ListingAnswers(scenario, token) :
       /\ a.rejects \/ a.body = "invalid"
       /\ listing' = [outcome |-> IF a.rejects THEN "rejected" ELSE "badjson", status |-> a.status]
  /\ EnterCatch(netLog)
  /\ UNCHANGED << scenario, dataVars, siteVars, self, other, now, token, storage, writer, repos, i, projectsData, commitCount, realProjects,
                  projectsLoading, settled, written, entry, fallback, contrib, pageLink, allCommits, langs,
                  cached, startedAt, cycles, fallbackRepos, prev >>

\* if (!reposResponse.ok) { setProjectsLoading(false); return; }
ReposNotOk ==
  /\ pc = "awaitRepos"
  /\ \E a \in ListingAnswers(scenario, token) :
       /\ ~a.rejects /\ a.body # "invalid" /\ ~Ok(a.status)
       /\ listing' = [outcome |-> "notok", status |-> a.status]
  /\ Return
  /\ UNCHANGED << scenario, dataVars, siteVars, self, other, now, token, storage, writer, repos, i, projectsData, commitCount, realProjects,
                  netLog, written, entry, fallback, contrib, pageLink, allCommits, langs,
                  cached, startedAt, cycles, fallbackRepos, prev >>

\* if (!Array.isArray(repos)) { setProjectsLoading(false); return; }
ReposNotArray ==
  /\ pc = "awaitRepos"
  /\ \E a \in ListingAnswers(scenario, token) :
       /\ ~a.rejects /\ a.body = "object" /\ Ok(a.status)
       /\ listing' = [outcome |-> "notarray", status |-> a.status]
  /\ Return
  /\ UNCHANGED << scenario, dataVars, siteVars, self, other, now, token, storage, writer, repos, i, projectsData, commitCount, realProjects,
                  netLog, written, entry, fallback, contrib, pageLink, allCommits, langs,
                  cached, startedAt, cycles, fallbackRepos, prev >>

\* the listing is an array: the loop starts
ReposListed ==
  /\ pc = "awaitRepos"
  /\ \E a \in ListingAnswers(scenario, token) :
       /\ ~a.rejects /\ a.body = "array" /\ Ok(a.status)
       /\ listing' = [outcome |-> "array", status |-> a.status]
       /\ repos' = a.list
       /\ ContinueLoop(1, << >>, a.list)
  /\ UNCHANGED << scenario, dataVars, siteVars, self, other, now, token, entry, fallback, startedAt, cycles, fallbackRepos,
                  prev >>

\* the repository being enriched
repo == RepoCatalogue[repos[i]]

\* Method 1: the sum of the contributions, 0 when the request rejects, the
\* status is not OK, json() throws or the body is not an array
contributorsCount(a) ==
  IF ~a.rejects /\ Ok(a.status) /\ a.body = "array" THEN SumContributions(a.list) ELSE 0

\* what the contributors request came to
ContributorsOutcome(a) ==
  CASE a.rejects -> "rejected"
    [] ~Ok(a.status) -> "notok"
    [] a.body = "invalid" -> "badjson"
    [] a.body = "object" -> "notarray"
    [] contributorsCount(a) = 0 -> "zero"
    [] OTHER -> "positive"

\* Method 2 is never tried
needsMethod2_never(count) == count < 0

\* if (commitCount === 0): Method 2 is tried
needsMethod2(count) == count = 0

\* Method 1 is done
ContributorsDone ==
  /\ pc = "awaitContributors"
  /\ \E a \in ContributorsAnswersFor(scenario, repos[i]) :
       /\ commitCount' = contributorsCount(a)
       /\ contrib' = ContributorsOutcome(a)
       /\ IF needsMethod2(contributorsCount(a))
          THEN /\ netLog' = Append(netLog, Request("commits?per_page=1", repos[i], token))
               /\ pc' = "awaitCommitsPage"
          ELSE /\ netLog' = Append(netLog, Request("languages", repos[i], token))
               /\ pc' = "awaitLanguages"
  /\ UNCHANGED << scenario, dataVars, siteVars, self, other, now, token, storage, writer, repos, i, projectsData, realProjects,
                  projectsLoading, settled, written, entry, listing, fallback, pageLink, allCommits, langs,
                  cached, startedAt, cycles, fallbackRepos, prev >>

\* what the commits?per_page=1 request came to
CommitsPageOutcome(a) ==
  CASE a.rejects -> "rejected"
    [] ~Ok(a.status) -> "notok"
    [] a.link = NoLink -> "nolink"
    [] lastPageMatch(a.link) = << >> -> "nolast"
    [] OTHER -> "last"

\* commitCount after the commits?per_page=1 request, when no further request
\* is made: 1 when it rejects, the rel="last" page when the header has one
commitsPageCount(a, count) ==
  CASE CommitsPageOutcome(a) = "rejected" -> 1
    [] CommitsPageOutcome(a) = "last" -> parseInt(lastPageMatch(a.link)[1])
    [] OTHER -> count

\* Method 2, first request, is done
CommitsPageDone ==
  /\ pc = "awaitCommitsPage"
  /\ \E a \in CommitsPageAnswers(scenario) :
       /\ pageLink' = [outcome |-> CommitsPageOutcome(a), link |-> a.link]
       /\ commitCount' = commitsPageCount(a, commitCount)
       /\ IF CommitsPageOutcome(a) = "nolink"
          THEN /\ netLog' = Append(netLog, Request("commits", repos[i], token))
               /\ pc' = "awaitAllCommits"
          ELSE /\ netLog' = Append(netLog, Request("languages", repos[i], token))
               /\ pc' = "awaitLanguages"
  /\ UNCHANGED << scenario, dataVars, siteVars, self, other, now, token, storage, writer, repos, i, projectsData, realProjects,
                  projectsLoading, settled, written, entry, listing, fallback, contrib,
                  allCommits, langs, cached, startedAt, cycles, fallbackRepos, prev >>

\* commitCount after the request for the whole commit list: its length, 1 when
\* the request rejects, json() throws or the body is not an array, unchanged
\* when the status is not OK
allCommitsCount(a, count) ==
  CASE a.rejects -> 1
    [] ~Ok(a.status) -> count
    [] a.body = "array" -> Len(a.list)
    [] OTHER -> 1

\* what the request for the whole commit list came to
AllCommitsOutcome(a) ==
  CASE a.rejects -> "rejected"
    [] ~Ok(a.status) -> "notok"
    [] a.body = "invalid" -> "badjson"
    [] a.body = "object" -> "notarray"
    [] a.list = << >> -> "empty"
    [] OTHER -> "counted"

\* Method 2, second request, is done
AllCommitsDone ==
  /\ pc = "awaitAllCommits"
  /\ \E a \in AllCommitsAnswers(scenario) :
       /\ commitCount' = allCommitsCount(a, commitCount)
       /\ allCommits' = AllCommitsOutcome(a)
  /\ netLog' = Append(netLog, Request("languages", repos[i], token))
  /\ pc' = "awaitLanguages"
  /\ UNCHANGED << scenario, dataVars, siteVars, self, other, now, token, storage, writer, repos, i, projectsData, realProjects,
                  projectsLoading, settled, written, entry, listing, fallback, contrib,
                  pageLink, langs, cached, startedAt, cycles, fallbackRepos, prev >>

\* Object.keys(languages) when the request succeeds, else no key
languageKeys(a) ==
  IF ~a.rejects /\ Ok(a.status) /\ a.body = "object" THEN a.list ELSE << >>

\* what the languages request came to
LanguagesOutcome(a) ==
  CASE a.rejects -> "rejected"
    [] ~Ok(a.status) -> "notok"
    [] a.body = "invalid" -> "badjson"
    [] a.list = << >> -> "nokeys"
    [] OTHER -> "keys"

\* an inclusion gate that lets every repository through
included_always(r, count) == count >= 0 \/ r.private

\* if (commitCount > 0 || repo.private)
included(r, count) == count > 0 \/ r.private

\* the languages request is done: the entry is pushed if the repository is
\* included, and the 150 ms delay starts
LanguagesDone ==
  /\ pc = "awaitLanguages"
  /\ \E a \in LanguagesAnswersFor(scenario, repos[i]) :
       /\ langs' = [outcome |-> LanguagesOutcome(a), keys |-> a.list]
       /\ projectsData' =
            IF included(repo, commitCount)
            THEN Append(projectsData,
                        ProjectEntry(repo, techStackOf(repo, languageKeys(a)), commitCount,
                                     StatusOf(repo)))
            ELSE projectsData
  /\ pc' = "delay"
  /\ UNCHANGED << scenario, dataVars, siteVars, self, other, now, token, storage, writer, repos, i, commitCount, realProjects,
                  projectsLoading, settled, netLog, written, entry, listing, fallback,
                  contrib, pageLink, allCommits, cached, startedAt, cycles, fallbackRepos, prev >>

\* the delay is over: the loop goes on with the next repository
DelayDone ==
  /\ pc = "delay"
  /\ ContinueLoop(i + 1, projectsData, repos)
  /\ UNCHANGED << scenario, dataVars, siteVars, self, other, now, token, repos, entry, listing, fallback, startedAt, cycles,
                  fallbackRepos, prev >>

\* the fallback fetch rejects or fallbackResponse.json() throws
FallbackThrows ==
  /\ pc = "awaitFallback"
  /\ \E a \in PublicListingAnswers(scenario) :
       /\ a.rejects \/ a.body = "invalid"
       /\ fallback' = [outcome |-> IF a.rejects THEN "rejected" ELSE "badjson", status |-> a.status]
  /\ pc' = "done"
  /\ projectsLoading' = FALSE
  /\ settled' = fallbackErrorSettles
  /\ UNCHANGED << scenario, dataVars, siteVars, self, other, now, token, storage, writer, repos, i, projectsData, commitCount, realProjects,
                  netLog, written, entry, listing, contrib, pageLink, allCommits, langs,
                  cached, startedAt, cycles, fallbackRepos, prev >>

\* the fallback body is not an array, or an empty one: nothing is shown
FallbackUnusable ==
  /\ pc = "awaitFallback"
  /\ \E a \in PublicListingAnswers(scenario) :
       /\ ~a.rejects
       /\ a.body = "object" \/ (a.body = "array" /\ a.list = << >>)
       /\ fallback' = [outcome |-> IF a.body = "object" THEN "notarray" ELSE "empty",
                       status |-> a.status]
  /\ Return
  /\ UNCHANGED << scenario, dataVars, siteVars, self, other, now, token, storage, writer, repos, i, projectsData, commitCount, realProjects,
                  netLog, written, entry, listing, contrib, pageLink, allCommits, langs,
                  cached, startedAt, cycles, fallbackRepos, prev >>

\* the fallback body is a non-empty array: filter, cap at 10, cache write,
\* setRealProjects; a throwing setItem is swallowed by the inner catch
FallbackListed ==
  /\ pc = "awaitFallback"
  /\ \E a \in PublicListingAnswers(scenario), failure \in WriteFailures :
       /\ ~a.rejects /\ a.body = "array" /\ a.list # << >>
       /\ fallback' = [outcome |-> "array", status |-> a.status]
       /\ fallbackRepos' = a.list
       /\ storage' = setItems(storage, fallbackProjectsOf(a.list), now, failure)
       /\ writer' = writerAfter(writer, self, failure)
       /\ written' = written + (CASE failure = "ok" -> 2
                                  [] failure = "second" -> 1
                                  [] OTHER -> 0)
       /\ realProjects' = IF failure = "ok" THEN fallbackProjectsOf(a.list) ELSE realProjects
       /\ cached' = IF failure = "ok" THEN CachedAt(now) ELSE NotCached
       /\ settled' = IF failure = "ok" THEN "fulfilled" ELSE fallbackErrorSettles
  /\ pc' = "done"
  /\ projectsLoading' = FALSE
  /\ UNCHANGED << scenario, dataVars, siteVars, self, other, now, token, repos, i, projectsData, commitCount,
                  netLog, entry, listing, contrib, pageLink, allCommits, langs, startedAt, cycles, prev >>

\* time passes, between two cycles or while the listing request is pending
Tick ==
  /\ pc \in { "unmounted", "done", "awaitRepos" }
  /\ now + TickMs <= MaxTicks * TickMs
  /\ now' = now + TickMs
  /\ UNCHANGED << scenario, dataVars, siteVars, self, other, token, storage, writer, pc, repos, i, projectsData, commitCount, realProjects,
                  projectsLoading, settled, netLog, written, entry, listing, fallback,
                  contrib, pageLink, allCommits, langs, cached, startedAt, cycles, fallbackRepos, prev >>

\* The running cycle is suspended at an await and the other cycle runs: a
\* second call of fetchGitHubProjects that starts, or goes on, while the first
\* is in flight.  Both share localStorage; each has its own local state.
Switch ==
  /\ scenario = "overlap"
  /\ pc # "unmounted"
  /\ other.pc # "done"
  /\ pc = "done" => other.pc # "unmounted"
  /\ self' = 3 - self
  /\ other' = [pc |-> pc, repos |-> repos, i |-> i, projectsData |-> projectsData,
                commitCount |-> commitCount, realProjects |-> realProjects,
                projectsLoading |-> projectsLoading, settled |-> settled,
                netLog |-> netLog, written |-> written, entry |-> entry,
                listing |-> listing, fallback |-> fallback, contrib |-> contrib,
                pageLink |-> pageLink, allCommits |-> allCommits, langs |-> langs,
                cached |-> cached, startedAt |-> startedAt,
                fallbackRepos |-> fallbackRepos, prev |-> prev]
  /\ pc' = other.pc
  /\ repos' = other.repos
  /\ i' = other.i
  /\ projectsData' = other.projectsData
  /\ commitCount' = other.commitCount
  /\ realProjects' = other.realProjects
  /\ projectsLoading' = other.projectsLoading
  /\ settled' = other.settled
  /\ netLog' = other.netLog
  /\ written' = other.written
  /\ entry' = other.entry
  /\ listing' = other.listing
  /\ fallback' = other.fallback
  /\ contrib' = other.contrib
  /\ pageLink' = other.pageLink
  /\ allCommits' = other.allCommits
  /\ langs' = other.langs
  /\ cached' = other.cached
  /\ startedAt' = other.startedAt
  /\ fallbackRepos' = other.fallbackRepos
  /\ prev' = other.prev
  /\ UNCHANGED << scenario, dataVars, siteVars, now, token, storage, writer, cycles >>

Next ==
  \/ CacheReadThrows
  \/ CacheHit
  \/ CacheMiss
  \/ ReposThrows
  \/ ReposNotOk
  \/ ReposNotArray
  \/ ReposListed
  \/ ContributorsDone
  \/ CommitsPageDone
  \/ AllCommitsDone
  \/ LanguagesDone
  \/ DelayDone
  \/ FallbackThrows
  \/ FallbackUnusable
  \/ FallbackListed
  \/ Tick

Spec == Init /\ [][Next]_vars

SpecTwice == InitTwice /\ [][Next]_vars

SpecMany == InitMany /\ [][Next]_vars

NextOverlap == Next \/ Switch

SpecOverlap == InitOverlap /\ [][NextOverlap]_vars

----------------------------------------------------------------------------
(* fetchGitHubData, with the fetchWithRetry calls it makes                 *)

\* the state of fetchGitHubProjects, which fetchGitHubData leaves alone
projectVars ==
  << storage, pc, repos, i, projectsData, commitCount, realProjects, projectsLoading,
     settled, netLog, written, entry, listing, fallback, contrib, pageLink, allCommits,
     langs, cached, startedAt, cycles, fallbackRepos, self, other, writer, prev >>

\* the endpoint of GitHubAPIClient.getRepos
getReposEndpoint(includePrivate) == IF includePrivate THEN "user/repos" ELSE "users/repos"

\* the request of a fetchWithRetry call: the listing, getRepos(username,
\* false), or the commits of the repository at position k of rr
dataRequest(k, rr) ==
  IF k = 0 THEN Request(getReposEndpoint(FALSE), 0, token)
  ELSE Request("commits?per_page=3", rr[k], token)

\* the repository a request is about
aboutOf(k, rr) == IF k = 0 THEN 0 ELSE rr[k]

\* a call of fetchWithRetry up to its first await
StartFetch(k, rr) ==
  /\ target' = k
  /\ attempt' = 0
  /\ tries' = << dataRequest(k, rr) >>
  /\ waits' = << >>
  /\ dpc' = "awaitFetch"

\* a catch block that leaves the loading flag alone
UseFallback_stillLoading ==
  /\ gitCommits' = fallbackCommits(now)
  /\ loading' = loading
  /\ usedFallback' = TRUE
  /\ dpc' = "done"

\* the catch block of fetchGitHubData
UseFallback ==
  /\ gitCommits' = fallbackCommits(now)
  /\ loading' = FALSE
  /\ usedFallback' = TRUE
  /\ dpc' = "done"

\* The loop over recentRepos from position k on, up to its next await: the
\* commits request of the repository at k, or the end of the loop: the check
\* for no commits, sort (in place), cap, cache write, setGitCommits.
NextRepo(k, rr, cd) ==
  IF k <= Len(rr)
  THEN /\ StartFetch(k, rr)
       /\ commitsData' = cd
       /\ UNCHANGED << commitsStore, gitCommits, loading, usedFallback >>
  ELSE /\ UNCHANGED << target, attempt, tries, waits >>
       /\ IF cd = << >>
          THEN /\ commitsData' = cd
               /\ UseFallback
               /\ UNCHANGED commitsStore
          ELSE /\ commitsData' = sortCommits(cd)
               /\ \E failure \in WriteFailures :
                    /\ commitsStore' = setCommitItems(commitsStore, finalCommitsOf(cd), now, failure)
                    /\ IF failure = "ok"
                       THEN /\ gitCommits' = finalCommitsOf(cd)
                            /\ loading' = FALSE
                            /\ dpc' = "done"
                            /\ UNCHANGED usedFallback
                       ELSE UseFallback

\* localStorage.getItem throws: the catch block runs
DataCacheReadThrows ==
  /\ dpc = "unmounted"
  /\ dEntry' = "readthrew"
  /\ UseFallback
  /\ UNCHANGED << fetchLog, commitsStore, dataRepos, recentRepos, target, attempt, tries, waits,
                  commitsData, scenario, now, token, projectVars, siteVars >>

\* the cache entry is fresh: it is parsed and shown
DataCacheHit ==
  /\ dpc = "unmounted"
  /\ CacheFresh(commitsStore, now, COMMITS_EXPIRY)
  /\ dEntry' = "hit"
  /\ gitCommits' = JSONparse(commitsStore.data[1])
  /\ loading' = FALSE
  /\ dpc' = "done"
  /\ UNCHANGED << fetchLog, commitsStore, dataRepos, recentRepos, target, attempt, tries, waits,
                  commitsData, usedFallback, scenario, now, token, projectVars, siteVars >>

\* no usable cache entry: getRepos issues the listing request
DataCacheMiss ==
  /\ dpc = "unmounted"
  /\ ~CacheFresh(commitsStore, now, COMMITS_EXPIRY)
  /\ dEntry' = "miss"
  /\ StartFetch(0, << >>)
  /\ UNCHANGED << fetchLog, commitsStore, gitCommits, loading, dataRepos, recentRepos, commitsData,
                  usedFallback, scenario, now, token, projectVars, siteVars >>

\* an attempt fails and fetchWithRetry waits before the next one
FetchRetries ==
  /\ dpc = "awaitFetch"
  /\ \E a \in DataAnswersFor(scenario, aboutOf(target, recentRepos)) :
       /\ fetchOutcome(a, attempt).kind = "wait"
       /\ waits' = Append(waits, fetchOutcome(a, attempt).ms)
       /\ fetchLog' = answered(fetchLog, a, attempt)
  /\ dpc' = "retryWait"
  /\ UNCHANGED << commitsStore, gitCommits, loading, dataRepos, recentRepos, target, attempt,
                  tries, commitsData, dEntry, usedFallback, scenario, now, token, projectVars, siteVars >>

\* the wait is over: the next attempt
RetryWaitDone ==
  /\ dpc = "retryWait"
  /\ attempt' = attempt + 1
  /\ tries' = Append(tries, dataRequest(target, recentRepos))
  /\ dpc' = "awaitFetch"
  /\ UNCHANGED << fetchLog, commitsStore, gitCommits, loading, dataRepos, recentRepos, target, waits,
                  commitsData, dEntry, usedFallback, scenario, now, token, projectVars, siteVars >>

\* getRepos throws after its last attempt: the catch block runs
ListingThrows ==
  /\ dpc = "awaitFetch"
  /\ target = 0
  /\ \E a \in DataAnswersFor(scenario, 0) :
       /\ fetchOutcome(a, attempt).kind = "throw"
       /\ fetchLog' = answered(fetchLog, a, attempt)
  /\ UseFallback
  /\ UNCHANGED << commitsStore, dataRepos, recentRepos, target, attempt, tries, waits,
                  commitsData, dEntry, scenario, now, token, projectVars, siteVars >>

\* if (!Array.isArray(repos) || repos.length === 0) throw
ListingUnusable ==
  /\ dpc = "awaitFetch"
  /\ target = 0
  /\ \E a \in DataAnswersFor(scenario, 0) :
       /\ fetchOutcome(a, attempt).kind = "return"
       /\ a.body # "array" \/ a.list = << >>
       /\ fetchLog' = answered(fetchLog, a, attempt)
  /\ UseFallback
  /\ UNCHANGED << commitsStore, dataRepos, recentRepos, target, attempt, tries, waits,
                  commitsData, dEntry, scenario, now, token, projectVars, siteVars >>

\* the listing is a non-empty array: the repositories are selected and the
\* loop starts
ListingReturns ==
  /\ dpc = "awaitFetch"
  /\ target = 0
  /\ \E a \in DataAnswersFor(scenario, 0) :
       /\ fetchOutcome(a, attempt).kind = "return"
       /\ a.body = "array" /\ a.list # << >>
       /\ fetchLog' = answered(fetchLog, a, attempt)
       /\ dataRepos' = a.list
       /\ recentRepos' = recentReposOf(a.list)
       /\ NextRepo(1, recentReposOf(a.list), << >>)
  /\ UNCHANGED << dEntry, scenario, now, token, projectVars, siteVars >>

\* the commits request throws after its last attempt: the inner catch warns
\* and the loop goes on with the next repository, without the delay
CommitsThrows ==
  /\ dpc = "awaitFetch"
  /\ target > 0
  /\ \E a \in DataAnswersFor(scenario, recentRepos[target]) :
       /\ fetchOutcome(a, attempt).kind = "throw"
       /\ fetchLog' = answered(fetchLog, a, attempt)
  /\ NextRepo(target + 1, recentRepos, commitsData)
  /\ UNCHANGED << dataRepos, recentRepos, dEntry, scenario, now, token, projectVars, siteVars >>

\* the commits request returns: an array's commits are pushed, and the
\* REQUEST_DELAY starts
CommitsReturns ==
  /\ dpc = "awaitFetch"
  /\ target > 0
  /\ \E a \in DataAnswersFor(scenario, recentRepos[target]) :
       /\ fetchOutcome(a, attempt).kind = "return"
       /\ fetchLog' = answered(fetchLog, a, attempt)
       /\ commitsData' = IF a.body = "array"
                          THEN commitsData \o commitEntries(recentRepos[target], a.list)
                          ELSE commitsData
  /\ dpc' = "repoDelay"
  /\ UNCHANGED << commitsStore, gitCommits, loading, dataRepos, recentRepos, target, attempt,
                  tries, waits, dEntry, usedFallback, scenario, now, token, projectVars, siteVars >>

\* the delay is over: the loop goes on with the next repository
RepoDelayDone ==
  /\ dpc = "repoDelay"
  /\ NextRepo(target + 1, recentRepos, commitsData)
  /\ UNCHANGED << fetchLog, dataRepos, recentRepos, dEntry, scenario, now, token, projectVars, siteVars >>

\* time passes while fetchGitHubData runs or before it starts
DataTick ==
  /\ now + TickMs <= MaxTicks * TickMs
  /\ now' = now + TickMs
  /\ UNCHANGED << dataVars, scenario, token, projectVars, siteVars >>

NextData ==
  \/ DataCacheReadThrows
  \/ DataCacheHit
  \/ DataCacheMiss
  \/ FetchRetries
  \/ RetryWaitDone
  \/ ListingThrows
  \/ ListingUnusable
  \/ ListingReturns
  \/ CommitsThrows
  \/ CommitsReturns
  \/ RepoDelayDone
  \/ DataTick

\* an entry an earlier session wrote at time 0
StoredCommitsEarlier == setCommitItems(EmptyStorage, commitEntries(3, CommitsOf(3)), 0, "ok")

InitDataCycle ==
  /\ commitsStore \in { EmptyStorage, StoredCommitsEarlier }
  /\ InitData
  /\ InitSite
  /\ scenario = "data"
  /\ storage = EmptyStorage
  /\ InitCycle

SpecData == InitDataCycle /\ [][NextData]_vars

----------------------------------------------------------------------------
(* POST /api/contact                                                       *)

\* A value of a field of the parsed body: absent, a string, or a number.
Undefined == [type |-> "undefined", text |-> << >>]

Str(s) == [type |-> "string", text |-> s]

Num(digits) == [type |-> "number", text |-> digits]

\* String(value), as RegExp.prototype.test converts its argument
String(v) == IF v.type = "undefined" THEN << "u","n","d","e","f","i","n","e","d" >> ELSE v.text

\* !value is false: a non-empty string, or a number other than 0
truthy(v) ==
  \/ v.type = "string" /\ v.text # << >>
  \/ v.type = "number" /\ v.text # << "0" >>

\* a character [^\s@] matches
NotSpaceNorAt(c) == c \notin { " ", "@" }

\* /^[^\s@]+@[^\s@]+\.[^\s@]+$/.test(s): an "@" at p and a "." at q split s
\* into three non-empty runs without whitespace or a further "@"
emailRegexTest(s) ==
  \E p, q \in 1..Len(s) :
    /\ s[p] = "@"
    /\ s[q] = "."
    /\ 1 < p
    /\ p + 1 < q
    /\ q < Len(s)
    /\ \A k \in (1..Len(s)) \ { p } : NotSpaceNorAt(s[k])

Names == { Undefined, Str(<< >>), Str(<< "A","d","a" >>) }

Emails ==
  { Undefined, Str(<< >>),
    Str(<< "a","@","b",".","c" >>), Str(<< "a",".","d","@","b",".","c",".","o" >>),
    Str(<< "a","@","b" >>), Str(<< "a","b",".","c" >>), Str(<< "@","b",".","c" >>),
    Str(<< "a","@",".","c" >>), Str(<< "a","@","b","." >>),
    Str(<< "a"," ","d","@","b",".","c" >>), Str(<< "a","@","b","@","c",".","d" >>) }

Messages == { Undefined, Str(<< >>), Str(<< "h","i" >>), Num(<< "5" >>) }

\* The bodies a client can post: text that is not JSON, the JSON value null,
\* or a JSON object with or without each of the three fields.
Bodies ==
  { [json |-> "invalid"], [json |-> "null"] } \cup
  { [json |-> "object", name |-> n, email |-> e, message |-> m] :
      n \in Names, e \in Emails, m \in Messages }

\* a response of the handler: NextResponse.json({ [key]: ... }, { status })
JsonResponse(status, key) == [status |-> status, key |-> key]

\* What the handler does with a body up to its first await or its return:
\* the response it returns ("none" while it awaits the upstream request),
\* whether it logs the submission, and whether it sends the upstream request.
handled(b, key) ==
  IF b.json # "object"
  THEN \* request.json() throws, or null cannot be destructured: the catch block
       [response |-> JsonResponse(500, "error"), logs |-> FALSE, sends |-> FALSE]
  ELSE IF ~truthy(b.name) \/ ~truthy(b.email) \/ ~truthy(b.message)
  THEN [response |-> JsonResponse(400, "error"), logs |-> FALSE, sends |-> FALSE]
  ELSE IF ~emailRegexTest(String(b.email))
  THEN [response |-> JsonResponse(400, "error"), logs |-> FALSE, sends |-> FALSE]
  ELSE IF ~key
  THEN [response |-> JsonResponse(200, "message"), logs |-> TRUE, sends |-> FALSE]
  ELSE IF b.message.type # "string"
  THEN \* message.replace is not a function: the catch block
       [response |-> JsonResponse(500, "error"), logs |-> FALSE, sends |-> FALSE]
  ELSE [response |-> "none", logs |-> FALSE, sends |-> TRUE]

\* Answers of the upstream email API: the request rejects, or a response with
\* a status and a text that is JSON or not.
UpstreamAnswers ==
  { [rejects |-> TRUE, status |-> 0, json |-> FALSE] } \cup
  { [rejects |-> FALSE, status |-> st, json |-> j] :
      st \in { 200, 401, 422, 500 }, j \in BOOLEAN }

\* what the handler returns once the upstream request has settled
relayed(a) ==
  IF a.rejects \/ ~Ok(a.status) \/ ~a.json
  THEN JsonResponse(500, "error")
  ELSE JsonResponse(200, "message")

\* the state of the GitHub cycles, which the contact route leaves alone
githubVars == << dataVars, scenario, now, token, projectVars >>

\* a POST arrives: the handler runs up to its return or to the upstream request
PostReceived ==
  /\ rpc = "idle"
  /\ \E b \in Bodies :
       /\ body' = b
       /\ logged' = handled(b, resendApiKey).logs
       /\ upstreamRequests' = IF handled(b, resendApiKey).sends THEN 1 ELSE 0
       /\ IF handled(b, resendApiKey).sends
          THEN rpc' = "awaitUpstream" /\ returned' = returned
          ELSE rpc' = "returned" /\ returned' = << handled(b, resendApiKey).response >>
  /\ UNCHANGED << resendApiKey, upstreamAnswer, githubVars, batchVars, countVars, formVars >>

\* the upstream request settles: the rest of the handler
UpstreamSettled ==
  /\ rpc = "awaitUpstream"
  /\ \E a \in UpstreamAnswers :
       /\ upstreamAnswer' = a
       /\ returned' = Append(returned, relayed(a))
  /\ rpc' = "returned"
  /\ UNCHANGED << body, resendApiKey, upstreamRequests, logged, githubVars, batchVars, countVars, formVars >>

NextRoute ==
  \/ PostReceived
  \/ UpstreamSettled

\* the GitHub cycles at rest, as before the page mounts
Unmounted(sc) ==
  /\ commitsStore = EmptyStorage
  /\ InitData
  /\ scenario = sc
  /\ storage = EmptyStorage
  /\ InitCycle

InitContact ==
  /\ InitRoute
  /\ InitBatches
  /\ InitCount
  /\ InitForm
  /\ resendApiKey \in BOOLEAN
  /\ Unmounted("contact")

SpecRoute == InitContact /\ [][NextRoute]_vars

----------------------------------------------------------------------------
(* processInBatches                                                        *)

\* the largest number of items of a call
MaxItems == 4

\* CACHE_CONFIG.MAX_CONCURRENT_REQUESTS, the default of batchSize
MAX_CONCURRENT_REQUESTS == 5

\* the batch sizes of the calls
BatchSizes == { 1, 2, 3, MAX_CONCURRENT_REQUESTS }

\* the value the promise of processor(item) is fulfilled with
ValueOf(item) == [of |-> item]

\* the positions of items.slice(i, i + batchSize)
batchPositions(its, from, bs) ==
  { k \in 1..Len(its) : from < k /\ k <= from + bs }

\* a collection that pushes something for every settled promise
RECURSIVE collected_all(_, _, _, _)
collected_all(res, its, outs, ks) ==
  IF ks = { } THEN res
  ELSE LET k == CHOOSE m \in ks : \A n \in ks : m <= n
       IN  collected_all(Append(res, ValueOf(its[k])), its, outs, ks \ { k })

\* batchResults.forEach: the values of the fulfilled promises of the
\* positions ks are pushed, in the order of the batch
RECURSIVE collected(_, _, _, _)
collected(res, its, outs, ks) ==
  IF ks = { } THEN res
  ELSE LET k == CHOOSE m \in ks : \A n \in ks : m <= n
       IN  collected(IF outs[k] = "fulfilled" THEN Append(res, ValueOf(its[k])) ELSE res,
                     its, outs, ks \ { k })

\* batch.map(item => processor(item)) for the batch at offset `from`: the
\* processor is invoked for one item after the other; an invocation returns
\* a promise or, for a processor that is not an async function, may throw,
\* which ends the map and rejects the promise of processInBatches.
StartBatch(from, its, bs, outs) ==
  /\ bi' = from
  /\ \E thrower \in batchPositions(its, from, bs) \cup { 0 } :
       /\ outcomes' = [k \in 1..Len(its) |->
                         IF k \in batchPositions(its, from, bs) /\ (thrower = 0 \/ k <= thrower)
                         THEN (IF k = thrower THEN "threw" ELSE "pending")
                         ELSE outs[k]]
       /\ bpc' = IF thrower = 0 THEN "awaitBatch" ELSE "rejected"

\* processInBatches is called: with no item it returns [] at once, else the
\* first batch starts
BatchCall ==
  /\ bpc = "idle"
  /\ \E n \in 0..MaxItems, bs \in BatchSizes :
       /\ items' = SeqOfRange(1, n)
       /\ batchSize' = bs
       /\ IF n = 0
          THEN bpc' = "returned" /\ bi' = 0 /\ outcomes' = << >>
          ELSE StartBatch(0, SeqOfRange(1, n), bs, [k \in 1..n |-> "none"])
  /\ UNCHANGED << results, githubVars, routeVars, countVars, formVars >>

\* the promise of one invocation settles
ProcessorSettles ==
  /\ \E k \in 1..Len(items), o \in { "fulfilled", "rejected" } :
       /\ outcomes[k] = "pending"
       /\ outcomes' = [outcomes EXCEPT ![k] = o]
  /\ UNCHANGED << bpc, items, batchSize, bi, results, githubVars, routeVars, countVars, formVars >>

\* Promise.allSettled resolves: the results of the batch are collected, then
\* the delay before the next batch starts, or the call returns
BatchSettled ==
  /\ bpc = "awaitBatch"
  /\ \A k \in batchPositions(items, bi, batchSize) : outcomes[k] # "pending"
  /\ results' = collected(results, items, outcomes, batchPositions(items, bi, batchSize))
  /\ bpc' = IF bi + batchSize < Len(items) THEN "batchDelay" ELSE "returned"
  /\ UNCHANGED << items, batchSize, bi, outcomes, githubVars, routeVars, countVars, formVars >>

\* the delay is over: the next batch starts
BatchDelayDone ==
  /\ bpc = "batchDelay"
  /\ StartBatch(bi + batchSize, items, batchSize, outcomes)
  /\ UNCHANGED << items, batchSize, results, githubVars, routeVars, countVars, formVars >>

NextBatches ==
  \/ BatchCall
  \/ ProcessorSettles
  \/ BatchSettled
  \/ BatchDelayDone

InitBatchCall ==
  /\ InitRoute
  /\ resendApiKey = FALSE
  /\ InitBatches
  /\ InitCount
  /\ InitForm
  /\ Unmounted("batches")

SpecBatches == InitBatchCall /\ [][NextBatches]_vars

----------------------------------------------------------------------------
(* GitHubAPIClient.getCommitCount, with the fetchWithRetry call it makes   *)

\* the repository of the call
CountedRepo == 3

\* the answers to GET .../contributors?per_page=100
CountAnswers ==
  { Rejected, Response(403, "object", << >>), Response(500, "invalid", << >>),
    Response(200, "invalid", << >>), Response(200, "object", << >>),
    Response(200, "array", << >>), Response(200, "array", << 2, 1 >>) }

\* the request of the fetchWithRetry call
contributorsRequest == Request("contributors", CountedRepo, token)

\* the state of the commits cycle apart from its fetchWithRetry call, and of
\* the rest, which getCommitCount leaves alone
notCountVars ==
  << dpc, commitsStore, gitCommits, loading, dataRepos, recentRepos, target, commitsData,
     dEntry, usedFallback, scenario, now, token, projectVars, routeVars, batchVars, formVars >>

\* the count getCommitCount returns once the contributors call has returned:
\* the sum of an array, else the default of the last line
countOfContributors(a) ==
  IF a.body = "array" THEN [via |-> "contributors", value |-> SumContributions(a.list)]
  ELSE [via |-> "default", value |-> 1]

\* the count getCommitCount returns once the commits?per_page=1 request has
\* settled: the page of the rel="last" link, else the default of the last line
countOfPage(a) ==
  IF ~a.rejects /\ lastPageMatch(a.link) # << >>
  THEN [via |-> "pagination", value |-> parseInt(lastPageMatch(a.link)[1])]
  ELSE [via |-> "default", value |-> 1]

\* getCommitCount is called: fetchWithRetry issues the contributors request
CountCall ==
  /\ cpc = "idle"
  /\ attempt' = 0
  /\ tries' = << contributorsRequest >>
  /\ waits' = << >>
  /\ cpc' = "awaitContributors"
  /\ UNCHANGED << fetchLog, pageAnswer, countResult, notCountVars >>

\* an attempt fails and fetchWithRetry waits before the next one
ContributorsRetries ==
  /\ cpc = "awaitContributors"
  /\ \E a \in CountAnswers :
       /\ fetchOutcome(a, attempt).kind = "wait"
       /\ waits' = Append(waits, fetchOutcome(a, attempt).ms)
       /\ fetchLog' = answered(fetchLog, a, attempt)
  /\ cpc' = "retryWait"
  /\ UNCHANGED << attempt, tries, pageAnswer, countResult, notCountVars >>

\* the wait is over: the next attempt
CountRetryWaitDone ==
  /\ cpc = "retryWait"
  /\ attempt' = attempt + 1
  /\ tries' = Append(tries, contributorsRequest)
  /\ cpc' = "awaitContributors"
  /\ UNCHANGED << waits, fetchLog, pageAnswer, countResult, notCountVars >>

\* fetchWithRetry returns the parsed body: getCommitCount returns
ContributorsReturns ==
  /\ cpc = "awaitContributors"
  /\ \E a \in CountAnswers :
       /\ fetchOutcome(a, attempt).kind = "return"
       /\ fetchLog' = answered(fetchLog, a, attempt)
       /\ countResult' = countOfContributors(a)
  /\ cpc' = "returned"
  /\ UNCHANGED << attempt, tries, waits, pageAnswer, notCountVars >>

\* fetchWithRetry throws after its last attempt: the catch block issues the
\* commits?per_page=1 request
ContributorsThrow ==
  /\ cpc = "awaitContributors"
  /\ \E a \in CountAnswers :
       /\ fetchOutcome(a, attempt).kind = "throw"
       /\ fetchLog' = answered(fetchLog, a, attempt)
  /\ pageAnswer' = [outcome |-> "pending", link |-> NoLink]
  /\ cpc' = "awaitCommitsPage"
  /\ UNCHANGED << attempt, tries, waits, countResult, notCountVars >>

\* the commits?per_page=1 request settles: getCommitCount returns
CountPageSettles ==
  /\ cpc = "awaitCommitsPage"
  /\ \E a \in CommitsPageAnswers("single") :
       /\ pageAnswer' = [outcome |-> CommitsPageOutcome(a), link |-> a.link]
       /\ countResult' = countOfPage(a)
  /\ cpc' = "returned"
  /\ UNCHANGED << attempt, tries, waits, fetchLog, notCountVars >>

NextCount ==
  \/ CountCall
  \/ ContributorsRetries
  \/ CountRetryWaitDone
  \/ ContributorsReturns
  \/ ContributorsThrow
  \/ CountPageSettles

InitCountCall ==
  /\ InitRoute
  /\ resendApiKey = FALSE
  /\ InitBatches
  /\ InitCount
  /\ InitForm
  /\ Unmounted("count")

SpecCount == InitCountCall /\ [][NextCount]_vars

----------------------------------------------------------------------------
(* MessageForm                                                             *)

\* the largest number of calls of handleSubmit
MaxSubmits == 3

S_application_json ==
  << "a","p","p","l","i","c","a","t","i","o","n","/","j","s","o","n" >>

S_text_html == << "t","e","x","t","/","h","t","m","l" >>

S_charset == << ";"," ","c","h","a","r","s","e","t","=","u","t","f","-","8" >>

ContentType(text) == [present |-> TRUE, text |-> text]

ContentTypes ==
  { NoContentType, ContentType(<< >>), ContentType(S_text_html),
    ContentType(S_application_json), ContentType(S_application_json \o S_charset) }

\* what the request to /api/contact can come to: fetch rejects, or a response
\* with a content-type header or none, a body that response.json() parses or
\* not, and a status that is OK or not
FormAnswers ==
  { [NoFormAnswer EXCEPT !.rejects = TRUE] } \cup
  [rejects : { FALSE }, contentType : ContentTypes, parses : BOOLEAN, ok : BOOLEAN]

\* what a visitor can type into a field
Typed == [name |-> { "", "Ada" }, email |-> { "", "ada@example.org" }, message |-> { "", "hello" }]

\* !formData.name || !formData.email || !formData.message
incomplete(fd) == fd.name = "" \/ fd.email = "" \/ fd.message = ""

\* contentType && contentType.includes('application/json')
isJson(ct) == ct.present /\ ct.text # << >> /\ includes(ct.text, S_application_json)

\* a handler that takes every parsed JSON answer for a success
submitOutcome_anyStatus(a) ==
  IF ~a.rejects /\ isJson(a.contentType) /\ a.parses THEN "success" ELSE "error"

\* the status the try block of handleSubmit sets, or its catch block
submitOutcome(a) ==
  IF ~a.rejects /\ isJson(a.contentType) /\ a.parses /\ a.ok THEN "success" ELSE "error"

notFormVars == << githubVars, routeVars, batchVars, countVars >>

\* handleInputChange: the inputs are disabled while a submission is under way
InputChange ==
  /\ fpc = "idle"
  /\ ~isSubmitting
  /\ \E field \in DOMAIN Typed :
       \E value \in Typed[field] \ { formData[field] } :
         formData' = [formData EXCEPT ![field] = value]
  /\ UNCHANGED << fpc, isSubmitting, submitStatus, formRequests, formAnswer, submits, notFormVars >>

\* handleSubmit up to its early return or to the request
Submit ==
  /\ fpc = "idle"
  /\ ~isSubmitting
  /\ submits < MaxSubmits
  /\ submits' = submits + 1
  /\ IF incomplete(formData)
     THEN UNCHANGED << fpc, isSubmitting, submitStatus, formRequests >>
     ELSE /\ isSubmitting' = TRUE
          /\ submitStatus' = "idle"
          /\ formRequests' = formRequests + 1
          /\ fpc' = "waiting"
  /\ UNCHANGED << formData, formAnswer, notFormVars >>

\* the request settles: the rest of the try block, the catch and the finally
FormAnswered ==
  /\ fpc = "waiting"
  /\ \E a \in FormAnswers :
       /\ formAnswer' = a
       /\ submitStatus' = submitOutcome(a)
       /\ formData' = IF submitOutcome(a) = "success"
                      THEN [name |-> "", email |-> "", message |-> ""]
                      ELSE formData
  /\ isSubmitting' = FALSE
  /\ fpc' = "idle"
  /\ UNCHANGED << formRequests, submits, notFormVars >>

NextForm ==
  \/ InputChange
  \/ Submit
  \/ FormAnswered

InitFormCall ==
  /\ InitRoute
  /\ resendApiKey = FALSE
  /\ InitBatches
  /\ InitCount
  /\ InitForm
  /\ Unmounted("form")

SpecForm == InitFormCall /\ [][NextForm]_vars

----------------------------------------------------------------------------
(* The page: both effects run side by side once it has mounted             *)

\* the steps of fetchGitHubProjects
ProjectsSteps ==
  \/ CacheReadThrows
  \/ CacheHit
  \/ CacheMiss
  \/ ReposThrows
  \/ ReposNotOk
  \/ ReposNotArray
  \/ ReposListed
  \/ ContributorsDone
  \/ CommitsPageDone
  \/ AllCommitsDone
  \/ LanguagesDone
  \/ DelayDone
  \/ FallbackThrows
  \/ FallbackUnusable
  \/ FallbackListed

\* the steps of fetchGitHubData
DataSteps ==
  \/ DataCacheReadThrows
  \/ DataCacheHit
  \/ DataCacheMiss
  \/ FetchRetries
  \/ RetryWaitDone
  \/ ListingThrows
  \/ ListingUnusable
  \/ ListingReturns
  \/ CommitsThrows
  \/ CommitsReturns
  \/ RepoDelayDone

NextPage == ProjectsSteps \/ DataSteps

InitPage ==
  /\ commitsStore \in { EmptyStorage, StoredCommitsEarlier }
  /\ InitData
  /\ InitSite
  /\ scenario = "live"
  /\ storage \in { EmptyStorage, StoredEarlier }
  /\ InitCycle

\* Every effect runs after the mount, every request settles and every timer
\* fires: while a cycle has a step to take, a step is taken in the end. Each
\* cycle has finitely many steps, so neither can keep the other waiting.
SpecPage == InitPage /\ [][NextPage]_vars /\ WF_vars(NextPage)

----------------------------------------------------------------------------
(* Claims                                                                  *)

\* the items of a list as a set
Range(seq) == { seq[k] : k \in 1..Len(seq) }

\* the requests of the current cycle that are about the repository r
RequestsAbout(r) == { k \in 1..Len(netLog) : netLog[k].repo = r }

\* the age of the cache entry the current cycle found, in ms
AgeFound == startedAt - parseInt(prev.ts[1])

\* C1: a projects cache entry whose age is equal to or greater than the
\* 30-minute window is never served: a cycle that is served from the cache
\* found an entry younger than the window.
C1_ExpiredEntryIsMiss ==
  entry = "hit" => AgeFound < PROJECTS_EXPIRY

\* C2: a cycle that finds both cache items and an entry younger than the window
\* ends at once with the cached payload as its list, without a network request
\* and without a cache write; nothing is requested or written later in it.
C2_HitNoNetwork ==
  /\ [](entry = "hit" => (pc = "done" /\ netLog = << >> /\ written = 0))
  /\ [][ ( /\ cycles' = cycles + 1
           /\ entry' # "readthrew"
           /\ Truthy(storage.data)
           /\ Truthy(storage.ts)
           /\ now - parseInt(storage.ts[1]) < PROJECTS_EXPIRY )
         => ( /\ entry' = "hit"
              /\ pc' = "done"
              /\ netLog' = << >>
              /\ written' = 0
              /\ storage' = storage
              /\ realProjects' = JSONparse(storage.data[1])
              /\ ~projectsLoading' ) ]_vars

C2_Witness ==
  /\ pc = "done"
  /\ entry = "hit"
  /\ realProjects = JSONparse(storage.data[1])
  /\ realProjects # << >>
  /\ AgeFound = TickMs

\* C3 as stated: whatever the first call came to, a second call less than 30
\* minutes after it issues no request and ends with the list of the first.
C3_Original ==
  (cycles = 2 /\ pc = "done" /\ startedAt - prev.startedAt < PROJECTS_EXPIRY)
    => (netLog = << >> /\ realProjects = prev.result)

\* C3 amended: if the first call ended with its list in the cache (served from
\* it, or saved with both items) and the second call reads the cache, without
\* a read error, less than 30 minutes after the entry's timestamp, the second
\* call issues no request and its list is the first call's list as JSON gives
\* it back (a Date field comes back as its ISO string).
C3_SecondCallFromCache ==
  ( /\ cycles >= 2
    /\ pc = "done"
    /\ prev.cached.is
    /\ entry # "readthrew"
    /\ startedAt - prev.cached.at < PROJECTS_EXPIRY )
    => ( /\ netLog = << >>
         /\ written = 0
         /\ realProjects = JSONparse(JSONstringify(prev.result)) )

C3_Witness ==
  /\ cycles = 2
  /\ pc = "done"
  /\ prev.cached.is
  /\ entry = "hit"
  /\ startedAt - prev.cached.at = TickMs
  /\ realProjects # << >>
  /\ realProjects # prev.result
  /\ netLog = << >>

\* C4: the call never rejects and always completes with projectsLoading
\* false; its list is empty when the listing request fails and the fallback
\* request fails too (or is not made).
C4_NeverRejects ==
  /\ settled # "rejected"
  /\ pc = "done" => (settled = "fulfilled" /\ ~projectsLoading)
  /\ ( /\ pc = "done"
       /\ listing.outcome \in { "rejected", "badjson", "notok", "notarray" }
       /\ fallback.outcome \in { "none", "rejected", "badjson", "notarray" } )
     => realProjects = << >>

C4_Witness ==
  /\ pc = "done"
  /\ settled = "fulfilled"
  /\ listing.outcome = "rejected"
  /\ fallback.outcome = "rejected"
  /\ realProjects = << >>

\* C5: whenever the listing request fails (it rejects, its status is not OK
\* or its body is not a list) the cycle has issued the fallback request by
\* the time it ends.
C5_FailedListingFallsBack ==
  (pc = "done" /\ listing.outcome \in { "rejected", "badjson", "notok", "notarray" })
    => \E k \in 1..Len(netLog) : netLog[k].endpoint = fallbackEndpoint

\* C6: without a token the listing request goes to the public user-repos
\* endpoint, and the cycle does not end with an empty list when the API
\* answers the request it got as documented (401 for the authenticated
\* endpoint without credentials).
C6_NoTokenUsesPublicEndpoint ==
  (~token /\ entry = "miss")
    => ( /\ netLog[1].endpoint = "users/repos"
         /\ (pc = "done" /\ listing.status = 401) => realProjects # << >> )

\* C7: a cycle whose first listing request is answered 403 issues exactly one
\* retry of the listing request.
C7_RetryAfter403 ==
  (pc = "done" /\ entry = "miss" /\ listing.status = 403)
    => Cardinality({ k \in 1..Len(netLog) : netLog[k].endpoint = listingEndpoint(token) }) = 2

AwesomeGo == << "a","w","e","s","o","m","e","-","g","o" >>

\* C8: no entry named "awesome-go" is in the list collected, in the list
\* shown or in the cache entry, on the main path and on the fallback path.
C8_NoAwesomeGo ==
  /\ \A e \in Range(projectsData) \cup Range(realProjects) : e.name # AwesomeGo
  /\ storage.data # NoItem => \A e \in Range(JSONparse(storage.data[1])) : e.name # AwesomeGo

C8_Witness ==
  /\ pc = "done"
  /\ listing.outcome = "array"
  /\ \E k \in 1..Len(repos) :
       RepoCatalogue[repos[k]].name = AwesomeGo /\ RepoCatalogue[repos[k]].private
  /\ written = 2
  /\ realProjects # << >>

\* the seven substrings, each against the name and the description
MatchesAnyOfSeven(r) ==
  \E sub \in { S_awesome_dash, S_curated, S_list_dash, S_collection_of,
               S_awesome_list, S_list_of, S_resources } :
    includes(toLowerCase(r.name), sub) \/ includes(toLowerCase(r.description), sub)

\* the tests the filter makes
MatchesAsTested(r) ==
  \/ \E sub \in { S_awesome_dash, S_curated, S_list_dash } :
       includes(toLowerCase(r.name), sub)
  \/ \E sub \in { S_curated, S_collection_of, S_awesome_list, S_list_of } :
       includes(toLowerCase(r.description), sub)

\* no enrichment request is about the repository at position k and no entry
\* the main path collects or shows has its name
Excluded(k) ==
  /\ RequestsAbout(repos[k]) = { }
  /\ \A e \in Range(projectsData) : e.name # RepoCatalogue[repos[k]].name
  /\ fallback.outcome = "none" =>
       \A e \in Range(realProjects) : e.name # RepoCatalogue[repos[k]].name

\* C9 as stated: a listed repository whose name or description contains any
\* of the seven substrings is excluded.
C9_Original ==
  \A k \in 1..Len(repos) : MatchesAnyOfSeven(RepoCatalogue[repos[k]]) => Excluded(k)

\* C9 amended: a listed repository is excluded whenever its name contains
\* "awesome-", "curated" or "list-", or its description contains "curated",
\* "collection of", "awesome list" or "list of", case-insensitively.
C9_ExcludedAsTested ==
  \A k \in 1..Len(repos) : MatchesAsTested(RepoCatalogue[repos[k]]) => Excluded(k)

C9_Witness ==
  /\ pc = "done"
  /\ repos = << 5, 6 >>
  /\ RequestsAbout(5) # { }
  /\ RequestsAbout(6) = { }
  /\ written = 2
  /\ fallback.outcome = "none"
  /\ Len(realProjects) = 1

\* the position in the log of the contributors request of repository i
ContributorsAt ==
  CHOOSE k \in 1..Len(netLog) : netLog[k] = Request("contributors", repos[i], token)

\* C10: when the contributors request succeeds with a sum of 0, the next
\* request is the commits request with one commit per page, and when its
\* answer has a rel="last" link the commit count is that link's page number.
C10_PaginationAfterEmptyContributors ==
  (contrib = "zero" /\ pc \in { "awaitCommitsPage", "awaitAllCommits", "awaitLanguages", "delay" })
    => ( /\ Len(netLog) > ContributorsAt
         /\ netLog[ContributorsAt + 1] = Request("commits?per_page=1", repos[i], token)
         /\ (pageLink.outcome = "last" /\ pc = "awaitLanguages")
              => \E k \in 1..Len(pageLink.link) :
                   /\ pageLink.link[k].rel = "last"
                   /\ toString(commitCount) = pageLink.link[k].page
         /\ (pageLink.outcome = "last" /\ pc = "delay")
              => /\ projectsData # << >>
                 /\ projectsData[Len(projectsData)].name = repo.name
                 /\ projectsData[Len(projectsData)].commitCount = commitCount )

C10_Witness ==
  /\ contrib = "zero"
  /\ pageLink.outcome = "last"
  /\ pc = "delay"
  /\ projectsData # << >>
  /\ projectsData[Len(projectsData)].commitCount = 37

\* the entry pushed last
LastPushed == projectsData[Len(projectsData)]

\* C11: a private repository of size 0 that is not excluded and whose commit
\* count comes to 0 by every method (contributors sum 0, no Link header, an
\* empty commit list) is in the collected list with commitCount 1.
C11_PrivateEmptyCountsOne ==
  ( /\ pc = "delay"
    /\ repo.private
    /\ repo.size = 0
    /\ contrib = "zero"
    /\ pageLink.outcome = "nolink"
    /\ allCommits = "empty" )
    => ( /\ projectsData # << >>
         /\ LastPushed.name = repo.name
         /\ LastPushed.commitCount = 1 )

\* every enrichment request of repository i was made and failed (it rejected
\* or its status was not OK)
EnrichmentFailed ==
  /\ contrib \in { "rejected", "notok" }
  /\ pageLink.outcome \in { "rejected", "notok" }
  /\ langs.outcome \in { "rejected", "notok" }

\* C12: a repository whose enrichment requests all fail is kept in the
\* collected list with commitCount 1 if it is private or has nonzero size,
\* else 0, and with its primary language, or "Code", as its tech stack.
C12_FailedEnrichmentKeepsRepository ==
  (pc = "delay" /\ EnrichmentFailed)
    => ( /\ projectsData # << >>
         /\ LastPushed.name = repo.name
         /\ LastPushed.commitCount = (IF repo.private \/ repo.size > 0 THEN 1 ELSE 0)
         /\ LastPushed.tech = << IF repo.language # "" THEN repo.language ELSE "Code" >> )

\* C13: every entry a live cycle collects or shows has commitCount greater
\* than 0 or is private.
C13_EntriesHaveCommitsOrPrivate ==
  entry # "hit" =>
    \A e \in Range(projectsData) \cup Range(realProjects) :
      e.commitCount > 0 \/ e.status = "private"

C13_Witness ==
  /\ pc = "delay"
  /\ commitCount = 0
  /\ ~repo.private
  /\ langs.outcome = "keys"
  /\ \A e \in Range(projectsData) : e.name # repo.name

\* the first n items of a list, or all of it when it has fewer
FirstN(seq, n) == [k \in 1..(IF Len(seq) < n THEN Len(seq) ELSE n) |-> seq[k]]

\* C14: every entry has a tech stack of 1 to 4 names: the first min(4, n)
\* keys of the language breakdown, in the order returned, when that request
\* succeeded with n > 0 keys; otherwise the primary language alone when the
\* repository has one; otherwise "Code" alone.  The fallback path, which
\* makes no languages request, gives the primary language or "Code".
C14_TechStack ==
  /\ \A e \in Range(projectsData) \cup Range(realProjects) :
       Len(e.tech) >= 1 /\ Len(e.tech) <= 4
  /\ (pc = "delay" /\ (commitCount > 0 \/ repo.private))
       => ( /\ projectsData # << >>
            /\ LastPushed.name = repo.name
            /\ LastPushed.tech =
                 (IF langs.outcome = "keys" THEN FirstN(langs.keys, 4)
                  ELSE IF repo.language # "" THEN << repo.language >>
                  ELSE << "Code" >>) )
  /\ (pc = "done" /\ fallback.outcome = "array" /\ cached.is)
       => \A e \in Range(realProjects) : e.tech = << e.language >>

C14_Witness ==
  /\ pc = "delay"
  /\ langs.outcome = "keys"
  /\ Len(langs.keys) = 5
  /\ projectsData # << >>
  /\ LastPushed.name = repo.name
  /\ LastPushed.tech = << "TypeScript", "CSS", "HTML", "JavaScript" >>

\* a is not behind b: pushed later, or at the same time with no fewer commits
NotBehind(a, b) ==
  \/ a.pushedAt.time > b.pushedAt.time
  \/ a.pushedAt.time = b.pushedAt.time /\ a.commitCount >= b.commitCount

\* C15: when the loop of the main path is over the collected list is ordered
\* by pushedAt descending and, for equal pushedAt, by commitCount descending;
\* the list shown is its first 15 entries in that order.
C15_SortedThenCapped ==
  /\ (listing.outcome = "array" /\ i > loopLimit(repos))
       => \A j, k \in 1..Len(projectsData) :
            j < k => NotBehind(projectsData[j], projectsData[k])
  /\ (pc = "done" /\ listing.outcome = "array" /\ fallback.outcome = "none")
       => realProjects = FirstN(projectsData, 15)

C15_Witness ==
  /\ pc = "done"
  /\ fallback.outcome = "none"
  /\ Len(projectsData) = 16
  /\ Len(realProjects) = 15
  /\ projectsData[16].name = RepoCatalogue[repos[1]].name
  /\ realProjects[15].name = RepoCatalogue[repos[2]].name
  /\ realProjects[15].pushedAt = projectsData[16].pushedAt
  /\ realProjects[15].commitCount > projectsData[16].commitCount

\* the positions of a listing whose repository passes the filter and, being
\* private, passes the inclusion gate whatever its enrichment comes to
Qualifying(rs) ==
  { k \in 1..Len(rs) :
      /\ ~MatchesAnyOfSeven(RepoCatalogue[rs[k]])
      /\ RepoCatalogue[rs[k]].private }

\* C16: the list shown never has more than 15 entries, and when the main
\* path completes on a listing of at most 100 repositories of which at least
\* 15 qualify, at whatever positions, it has exactly 15.
C16_CapIsFifteen ==
  /\ Len(realProjects) <= 15
  /\ ( /\ pc = "done"
       /\ listing.outcome = "array"
       /\ fallback.outcome = "none"
       /\ Len(repos) <= 100
       /\ Cardinality(Qualifying(repos)) >= 15 )
       => Len(realProjects) = 15

\* the tests of the fallback path's filter
MatchesFallbackTests(r) ==
  \/ \E sub \in { S_awesome_dash, S_curated, S_list_dash } :
       includes(toLowerCase(r.name), sub)
  \/ \E sub \in { S_curated, S_collection_of } :
       includes(toLowerCase(r.description), sub)

\* the positions of the fallback listing that the filter lets through
PassFallback == { k \in 1..Len(fallbackRepos) :
                   /\ RepoCatalogue[fallbackRepos[k]].size > 0
                   /\ ~MatchesFallbackTests(RepoCatalogue[fallbackRepos[k]]) }

\* the fallback path made one request, the public listing, and it is the
\* last of the cycle; every entry shown has commitCount 1, one tech name,
\* nonzero size and status fork or public
FallbackShape ==
  /\ Cardinality({ k \in 1..Len(netLog) : netLog[k].endpoint = fallbackEndpoint }) = 1
  /\ netLog[Len(netLog)] = Request(fallbackEndpoint, 0, FALSE)
  /\ \A e \in Range(realProjects) :
       /\ e.commitCount = 1
       /\ Len(e.tech) = 1
       /\ e.size > 0
       /\ e.status \in { "fork", "public" }

\* the fallback path showed its list
FallbackShown == pc = "done" /\ fallback.outcome = "array" /\ cached.is

\* C19 as stated: on the fallback path one request is made, every entry has
\* the shape above, and a repository of the public listing is missing from
\* the list only if its size is 0 or it matches the heuristic.
C19_Original ==
  FallbackShown
    => LET pass == PassFallback
           names == { e.name : e \in Range(realProjects) }
       IN  /\ FallbackShape
           /\ \A k \in pass : RepoCatalogue[fallbackRepos[k]].name \in names

\* C19 amended: as stated, except that a repository is also missing when ten
\* repositories before it in the listing passed the filter (the list is cut
\* to the first 10 that pass).
C19_FallbackEntries ==
  FallbackShown
    => LET pass == PassFallback
           names == { e.name : e \in Range(realProjects) }
       IN  /\ FallbackShape
           /\ Len(realProjects) <= 10
           /\ \A k \in 1..Len(fallbackRepos) :
                RepoCatalogue[fallbackRepos[k]].name \in names
                  <=> ( /\ k \in pass
                        /\ Cardinality({ m \in pass : m < k }) < 10 )

C19_Witness ==
  /\ FallbackShown
  /\ fallbackRepos = PublicListing
  /\ Len(realProjects) = 10
  /\ realProjects[1].name = RepoCatalogue[Libs[1]].name
  /\ realProjects[10].name = RepoCatalogue[Libs[10]].name
  /\ listing.outcome = "array"
  /\ Len(netLog) > 2

\* C17 as stated: a cycle that ends because the listing failed, that raised
\* an error, or that went through the fallback path leaves the payload item
\* and the timestamp item as it found them.
C17_Original ==
  ( /\ pc = "done"
    /\ \/ listing.outcome \in { "rejected", "badjson", "notok", "notarray" }
       \/ entry = "readthrew"
       \/ fallback.outcome # "none" )
    => storage = prev.storage

\* the step that ends the loop of the main path (sort, cap, cache write)
EndsMainPath ==
  pc \in { "awaitRepos", "delay" } /\ listing'.outcome = "array" /\ i' > loopLimit(repos')

\* the step in which the fallback path gets a non-empty public listing
EndsFallback == pc = "awaitFallback" /\ fallback'.outcome = "array"

\* C17 amended: the two items change only in the step that ends the main path
\* after listing, enrichment, sort and cap, or in the step in which the
\* fallback path gets a non-empty public listing; a completed main path leaves
\* the serialized list with the time of the write; a cycle that ends because
\* the listing answered non-OK or not a list, or whose listing and fallback
\* requests both failed, leaves both items as it found them.
C17_CacheWrittenAtEnds ==
  /\ [][storage' # storage => (EndsMainPath \/ EndsFallback)]_vars
  /\ []( ( /\ pc = "done"
           /\ entry = "miss"
           /\ listing.outcome = "array"
           /\ fallback.outcome = "none" )
         => storage = [data |-> << JSONstringify(realProjects) >>,
                       ts |-> << toString(cached.at) >>] )
  /\ []( ( /\ pc = "done"
           /\ listing.outcome # "array"
           /\ fallback.outcome \in { "none", "rejected", "badjson", "notarray", "empty" } )
         => (storage = prev.storage /\ written = 0) )

C17_Witness ==
  /\ pc = "done"
  /\ fallback.outcome = "array"
  /\ listing.outcome = "rejected"
  /\ written = 2
  /\ prev.storage = StoredEarlier
  /\ storage # StoredEarlier
  /\ storage.data = << JSONstringify(realProjects) >>

\* the list shown by the cycle `id`, and whether it saved it whole
ShownBy(id) == IF id = self THEN realProjects ELSE other.realProjects

SavedWholeBy(id) == IF id = self THEN cached.is ELSE other.cached.is

\* C18: with two overlapping cycles (the second starts while the first is
\* suspended), each cycle writes the cache at most once (one setItem per
\* item), the two items found at any suspension point were written by the
\* same cycle, and when both are over the payload is the list of the cycle
\* that wrote last.  (A cycle reads the cache in its first step only.)
C18_OverlappingCycles ==
  cycles = 2 =>
    ( /\ written <= 2
      /\ other.written <= 2
      /\ writer.data = writer.ts
      /\ ( /\ pc = "done"
           /\ other.pc = "done"
           /\ writer.data # 0
           /\ SavedWholeBy(writer.data) )
           => storage.data = << JSONstringify(ShownBy(writer.data)) >> )

\* the positions of the commits listing whose commits are requested: the
\* repository is not a fork, has nonzero size, and fewer than five such
\* repositories are listed before it
Requested ==
  LET able == { k \in 1..Len(dataRepos) :
                  ~RepoCatalogue[dataRepos[k]].fork /\ RepoCatalogue[dataRepos[k]].size > 0 }
  IN  { k \in able : Cardinality({ m \in able : m < k }) < 5 }

\* the entry e is a commit of the repository with index k, as the API gives it
CommitOf(e, k) ==
  /\ e.repo = RepoCatalogue[k].name
  /\ \E n \in 1..Len(CommitsOf(k)) : e.date.time = CommitsOf(k)[n].date

C21_FallbackOnlyWhenAllFail ==
  usedFallback => commitsData = << >>

\* the body has no name, email or message, or an empty one
LacksField(b) ==
  \/ b.json = "null"
  \/ /\ b.json = "object"
     /\ \E v \in { b.name, b.email, b.message } : v = Undefined \/ v = Str(<< >>)

\* the email of the body is a string that does not have the shape x@y.z
MalformedEmail(b) ==
  /\ b.json = "object"
  /\ b.email.type = "string"
  /\ ~emailRegexTest(b.email.text)

\* C22: a POST whose JSON body lacks name, email or message (or has it
\* empty), or whose email does not have the simple email shape, is answered
\* with status 400 and an error message, no request is sent to the upstream
\* email API and the submission is not logged as received.
C22_InvalidBodyIs400 ==
  (rpc # "idle" /\ (LacksField(body) \/ MalformedEmail(body)))
    => ( /\ rpc = "returned"
         /\ returned = << JsonResponse(400, "error") >>
         /\ upstreamRequests = 0
         /\ ~logged )

\* the input of the request is at fault: the body is not JSON, or it fails
\* the validation
ClientError(b) == b.json = "invalid" \/ LacksField(b) \/ MalformedEmail(b)

\* C23: every POST yields exactly one JSON response and the handler never
\* throws; the status is 200 with a message only if the validation passed
\* and either no credential is configured (and no upstream request was made)
\* or the single upstream request returned OK; it is 500 with an error if the
\* upstream request rejected or returned a status that is not OK; an input
\* error of the client, a body that is not JSON included, yields a 4xx status.
C23_OneResponsePerPost ==
  /\ Len(returned) = (IF rpc = "returned" THEN 1 ELSE 0)
  /\ upstreamRequests <= 1
  /\ rpc = "returned" =>
       /\ returned[1].status = 200 =>
            /\ returned[1].key = "message"
            /\ ~ClientError(body)
            /\ \/ ~resendApiKey /\ upstreamRequests = 0
               \/ /\ upstreamRequests = 1
                  /\ upstreamAnswer.status # 0
                  /\ ~upstreamAnswer.rejects
                  /\ Ok(upstreamAnswer.status)
       /\ (upstreamRequests = 1 /\ (upstreamAnswer.rejects \/ ~Ok(upstreamAnswer.status)))
            => returned[1] = JsonResponse(500, "error")
       /\ ClientError(body) => (returned[1].status >= 400 /\ returned[1].status <= 499)

\* the answer is a response with an OK status
OkResponse(a) == ~a.rejects /\ Ok(a.status)

\* the answer is a response with an OK status whose body parses as JSON
Parsed(a) == OkResponse(a) /\ a.body # "invalid"

\* the last answer of the log
LastAnswer == fetchLog.answers[Len(fetchLog.answers)]

\* C24 as stated: a fetchWithRetry call issues at most 3 requests; it issues
\* no request after an OK response and returns only with an OK response,
\* whose body is what the caller gets; it rejects when all 3 attempts failed
\* (the request rejected or the status was not OK).
C24_Original ==
  /\ Len(tries) <= 3
  /\ Len(fetchLog.answers) <= 3
  /\ \A k \in 1..(Len(fetchLog.answers) - 1) : ~OkResponse(fetchLog.answers[k])
  /\ fetchLog.result = "returned" => OkResponse(LastAnswer)
  /\ ( /\ Len(fetchLog.answers) = 3
       /\ \A k \in 1..3 : ~OkResponse(fetchLog.answers[k]) )
       => fetchLog.result = "threw"

\* C24, amended: a fetchWithRetry call issues at most 3 requests, one per
\* answer; it issues no request after an OK response whose body parses and
\* returns only with such a response, whose body is what the caller gets
\* (the listing the cycle goes on with); an OK response whose body does not
\* parse is a failed attempt like a rejected request or a status that is not
\* OK; the call rejects exactly when 3 attempts failed, and it has ended
\* whenever its caller has gone on.
C24_ReturnsFirstParsedBody ==
  /\ Len(tries) <= 3
  /\ Len(fetchLog.answers) <= 3
  /\ dpc \in { "awaitFetch", "retryWait" } /\ Len(waits) > 0
       => Len(tries) = Len(fetchLog.answers) + (IF dpc = "awaitFetch" THEN 1 ELSE 0)
  /\ \A k \in 1..(Len(fetchLog.answers) - 1) : ~Parsed(fetchLog.answers[k])
  /\ fetchLog.result = "returned" <=> (fetchLog.answers # << >> /\ Parsed(LastAnswer))
  /\ fetchLog.result = "threw"
       <=> (Len(fetchLog.answers) = 3 /\ \A k \in 1..3 : ~Parsed(fetchLog.answers[k]))
  /\ dpc \in { "repoDelay", "done" } /\ dEntry = "miss" => fetchLog.result \in { "returned", "threw" }
  /\ dpc = "repoDelay" => fetchLog.result = "returned"
  /\ dataRepos # << >> /\ target = 0 => (fetchLog.result = "returned" /\ LastAnswer.list = dataRepos)

C24_Witness ==
  /\ dpc = "repoDelay"
  /\ fetchLog.result = "returned"
  /\ Len(tries) = 3
  /\ fetchLog.answers[1] = Response(200, "invalid", << >>)
  /\ fetchLog.answers[2] = Response(403, "object", << >>)
  /\ LastAnswer = Response(200, "array", CommitsOf(recentRepos[target]))
  /\ commitsData # << >>

\* C25: the wait before the k-th retry of a fetchWithRetry call is k x 1000 ms
\* when the failed attempt returned HTTP 403 and k x 500 ms when it failed in
\* any other way; each failed attempt but the last is followed by exactly one
\* wait, and a call that fails 3 times has waited twice.
C25_LinearBackoff ==
  /\ Len(waits) <= 2
  /\ Len(waits) > 0 =>
       /\ Len(fetchLog.answers) \in { Len(waits), Len(waits) + 1 }
       /\ dpc = "retryWait" => Len(fetchLog.answers) = Len(waits)
       /\ \A k \in 1..Len(waits) :
            /\ ~Parsed(fetchLog.answers[k])
            /\ waits[k] = IF ~fetchLog.answers[k].rejects /\ fetchLog.answers[k].status = 403
                          THEN k * 1000 ELSE k * 500
  /\ dpc = "done" /\ fetchLog.result = "threw" => Len(waits) = 2

C25_Witness ==
  /\ dpc = "done"
  /\ fetchLog.result = "threw"
  /\ waits = << 500, 2000 >>
  /\ fetchLog.answers[1] = Rejected
  /\ fetchLog.answers[2] = Response(403, "object", << >>)
  /\ LastAnswer = Response(403, "object", << >>)

\* the requests of the log that are about a repository
EnrichmentRequests == { k \in 1..Len(netLog) : netLog[k].repo # 0 }

\* the repositories the cycle has issued an enrichment request about
Enriched == { netLog[k].repo : k \in EnrichmentRequests }

\* the position in the listing of the repository r
PositionOf(r) == CHOOSE p \in 1..Len(repos) : repos[p] = r

\* the enrichment requests of repository i that have been answered
Answered ==
  Cardinality({ v \in { << 1, contrib >>, << 2, pageLink.outcome >>, << 3, allCommits >>,
                        << 4, langs.outcome >> } : v[2] \notin { "pending", "none" } })

\* the cycle is inside its loop over the listing
InLoop ==
  pc \in { "awaitContributors", "awaitCommitsPage", "awaitAllCommits", "awaitLanguages", "delay" }

\* the step issues the first enrichment request about a repository
StartsRepository ==
  /\ Len(netLog') = Len(netLog) + 1
  /\ netLog'[Len(netLog')].repo # 0
  /\ netLog'[Len(netLog')].repo \notin Enriched

\* C26: in the sequential getProjects cycle at most one enrichment request
\* is outstanding at any time; the requests about one repository are issued
\* in one run, in listing order, and the first request about a repository is
\* issued only when every request issued before it has been answered; a
\* cycle issues enrichment requests about at most 30 repositories, and at
\* most 4 about each.
C26_SequentialEnrichment ==
  /\ [](InLoop =>
          /\ Cardinality(RequestsAbout(repos[i])) - Answered
               = (IF pc = "delay" THEN 0 ELSE 1)
          /\ netLog[Len(netLog)].repo = repos[i])
  /\ [](\A j, k \in EnrichmentRequests :
          j < k => PositionOf(netLog[j].repo) <= PositionOf(netLog[k].repo))
  /\ [][StartsRepository => pc \in { "awaitRepos", "delay" }]_vars
  /\ [](Cardinality(Enriched) <= 30)
  /\ [](\A r \in Enriched : Cardinality(RequestsAbout(r)) <= 4)

C26_Witness ==
  /\ pc = "done"
  /\ repos = FullListing
  /\ Cardinality(Enriched) = 30
  /\ Cardinality(RequestsAbout(3)) = 4
  /\ Tools[2] \in Enriched
  /\ Tools[3] \notin Enriched
  /\ Len(realProjects) = 15

\* the positions whose processor invocation is in flight
InFlight == { k \in 1..Len(items) : outcomes[k] = "pending" }

\* the batch of the position k
BatchOf(k) == (k - 1) \div batchSize

\* the values of the positions from k on whose promise was fulfilled
RECURSIVE FulfilledFrom(_)
FulfilledFrom(k) ==
  IF k > Len(items) THEN << >>
  ELSE (IF outcomes[k] = "fulfilled" THEN << ValueOf(items[k]) >> ELSE << >>)
       \o FulfilledFrom(k + 1)

\* at most batchSize invocations are in flight, and no item of a batch is
\* started before every item of the batches before it has settled
BatchesInTurn ==
  /\ Cardinality(InFlight) <= batchSize
  /\ \A j, k \in 1..Len(items) :
       (BatchOf(j) < BatchOf(k) /\ outcomes[k] # "none")
         => outcomes[j] \in { "fulfilled", "rejected" }

\* the call returns the values of the fulfilled invocations in input order
ReturnsFulfilled ==
  bpc = "returned"
    => /\ results = FulfilledFrom(1)
       /\ \A k \in 1..Len(items) : outcomes[k] \in { "fulfilled", "rejected" }

ContributorsZeroOrFailed ==
  \/ fetchLog.result = "threw"
  \/ /\ fetchLog.result = "returned"
     /\ LastAnswer.body = "array"
     /\ SumContributions(LastAnswer.list) = 0

\* C28: getCommitCount never rejects; when the contributors listing yields
\* zero (an empty list) or fails, it requests one commit per page and uses
\* the page number of the rel="last" link as the count; it returns the
\* default 1 only when that second method gives no count either.
C28_PaginationAfterZeroOrFailure ==
  cpc = "returned"
    => /\ countResult.via # "none"
       /\ ContributorsZeroOrFailed
            => ( /\ pageAnswer.outcome # "none"
                 /\ pageAnswer.outcome = "last"
                      => countResult.value = parseInt(lastPageMatch(pageAnswer.link)[1]) )
       /\ countResult.via = "default" => pageAnswer.outcome \notin { "none", "last" }

\* C29: with every request settling, every getProjects cycle and every
\* getRecentCommits cycle sets its loading flag (projectsLoading, loading)
\* to false in the end, on every path, and a flag that is false is not set
\* back to true.
C29_LoadingEnds ==
  /\ <>[](projectsLoading = FALSE /\ loading = FALSE)
  /\ [][(projectsLoading = FALSE => projectsLoading' = FALSE)
        /\ (loading = FALSE => loading' = FALSE)]_vars

C29_Witness ==
  /\ pc = "done"
  /\ dpc = "done"
  /\ projectsLoading = FALSE
  /\ loading = FALSE
  /\ listing.outcome = "rejected"
  /\ fallback.outcome = "rejected"
  /\ usedFallback

\* the latest request of the form was answered in JSON with an OK status
AnsweredJsonOk ==
  /\ ~formAnswer.rejects
  /\ isJson(formAnswer.contentType)
  /\ formAnswer.ok

\* C30: a call of handleSubmit with an empty name, email or message sends no
\* request and changes no state of the form; a submission that finishes
\* leaves submitStatus at success only if the answer was JSON with an OK
\* status, and then the fields are cleared; after any other answer
\* submitStatus is error and the fields are as they were; isSubmitting is
\* false once the submission has finished.
C30_SubmitOutcomes ==
  [][/\ (submits' # submits /\ incomplete(formData)) =>
          UNCHANGED << fpc, formData, isSubmitting, submitStatus, formRequests, formAnswer >>
     /\ (submits' # submits /\ ~incomplete(formData)) =>
          /\ formRequests' = formRequests + 1
          /\ isSubmitting'
     /\ (fpc = "waiting" /\ fpc' = "idle") =>
          /\ ~isSubmitting'
          /\ submitStatus' \in { "success", "error" }
          /\ submitStatus' = "success" =>
               /\ AnsweredJsonOk'
               /\ formData' = [name |-> "", email |-> "", message |-> ""]
          /\ ~AnsweredJsonOk' =>
               /\ submitStatus' = "error"
               /\ formData' = formData
          /\ submitStatus' = "error" => formData' = formData
     /\ (submitStatus # "success" /\ submitStatus' = "success") => fpc = "waiting"
     /\ (formData' = [name |-> "", email |-> "", message |-> ""] /\ formData' # formData) =>
          \/ fpc = "waiting" /\ submitStatus' = "success"
          \/ fpc = "idle" /\ submitStatus' = submitStatus
    ]_vars

C30_Witness ==
  /\ submits = 3
  /\ formRequests = 2
  /\ fpc = "idle"
  /\ ~isSubmitting
  /\ submitStatus = "error"
  /\ ~incomplete(formData)
  /\ isJson(formAnswer.contentType)
  /\ formAnswer.parses
  /\ ~formAnswer.ok

====
